---- MODULE Spec2Model ----
(***************************************************************************)
(* Verification model of the riskgrouper model-training pipeline.         *)
(*                                                                         *)
(* Each component of the pipeline is modelled from its source and         *)
(* explored under its own specification:                                  *)
(*   SpecSplit     data_prep/splitter.py and the three-tier prepare_data  *)
(*   SpecFeatures  data_prep/features.py                                  *)
(*   SpecConsensus analysis/risk_consensus_analyzer.py                    *)
(*   SpecReport    the output-writing stage of PipelineOrchestrator.run   *)
(*                 with reporting/individuals.py                          *)
(*   SpecOptimize  optimize_thresholds of the three-tier scripts          *)
(*   SpecEvaluate  the test-set evaluation of PipelineOrchestrator.run    *)
(*                 and of Engaged_Three_Tier_Regression.run_pipeline      *)
(*   SpecTrain     models/logistic.py, models/xgboost.py and the          *)
(*                 training part of RiskGrouper.prepare_and_run_models    *)
(*   SpecExplain   extract_local_factors of models/shap_tools.py          *)
(*   SpecCache     get_shap_explainer of models/shap_tools.py             *)
(*   SpecMetrics   compute_metrics of models/metrics.py                   *)
(*   SpecRun       PipelineOrchestrator.run, step by step                 *)
(*   SpecArgs      parse_args and the options the stages read             *)
(*   SpecTargets   main of RiskGrouper.py, one step per target            *)
(*   SpecConnector SnowflakeConnector used as a context manager           *)
(*   SpecPipeline  main of v1/scripts/utils/run_sql_pipeline.py           *)
(*   SpecScript    run_sql_from_file of scripts/utils/run_sql_script.py   *)
(*                                                                         *)
(* Probabilities are integers in hundredths (0.65 is 65).  A missing      *)
(* value is the string "NaN".                                             *)
(***************************************************************************)
EXTENDS Integers, Sequences, FiniteSets, TLC

VARIABLES
    variant,      \* which script runs: "refactor" (split_data) or "three_tier" (prepare_data)
    config,       \* the config dict handed to split_data
    raw_data,     \* the source DataFrame: a sequence of member-period rows
    rng,          \* numpy's seeded generator: (seed, n) -> RandomState(seed).permutation(n), fixed once drawn
    splits,       \* the result of the latest splitter call
    prev_splits,  \* the result of the call before it
    DEFAULT_CONFIG,  \* src.config.DEFAULT_CONFIG, the module-level dict
    raw_columns,  \* raw_data.columns with each column's dtype (numeric or not)
    selection,    \* what select_features returned and logged
    analyzer,     \* a RiskConsensusAnalyzer: its df, its thresholds dict, the last call's outcome
    data_splits,  \* the orchestrator's train/val/test frames, each row with what the models return for it
    report,       \* the rows written to the consolidated individual file
    validation,   \* the labels and scores handed to optimize_thresholds
    optimal,      \* what optimize_thresholds returned
    scores,       \* validation and test rows: the label and both models' probabilities
    evaluation,   \* the test-set predictions a script reported, per model
    y_train,  \* the target column of the training partition
    trained, \* what the latest trainer call computed and returned
    X_rows,  \* the feature rows handed to extract_local_factors
    explainer,  \* what the explainer answers for each of these rows
    explain_cfg,  \* the cfg dict of the explainability calls
    local_results, \* the records extract_local_factors returned
    cache_files,  \* the explainer files on disk, by cache path
    explainer_call,  \* the latest get_shap_explainer call: its arguments and the explainer it returned
    explainer_calls, \* the number of get_shap_explainer calls so far
    metrics_input,  \* the arrays and the model name handed to compute_metrics
    metrics, \* the dict compute_metrics returned
    has_run,  \* PipelineOrchestrator._has_run, the class-level run guard
    run_calls,  \* calls of PipelineOrchestrator.run made in this process
    run_pc,  \* position inside run, "idle" between calls
    run_pass,  \* which of the two copies of the pipeline body is executing
    run_locals,  \* local variables of run: -1 unbound, 0 None, k bound in pass k
    run_name,  \* the run name typed for permanent storage, "" when none
    run_result,  \* how the latest call of run ended
    run_trace, \* operations begun so far, each with the fetch its data came from
    argv,  \* the command line: the flags given and their values
    cli_cfg,  \* the dict parse_args returned
    stage_reads, \* the option values the stages read from that dict
    target_frames,  \* what the query returns in the iteration of each target
    target_index,  \* targets whose iteration has begun
    main_state,  \* "not_started", "looping", "failed" or "ended"
    run_summary_log,  \* the records of run_summary_log.csv, oldest first
    prediction_rows,  \* rows of the predictions file of each target
    logged, \* the warnings and errors logged, oldest first
    instances,  \* PipelineOrchestrator objects constructed in this process
    earlier_log_lines, \* lines earlier processes wrote to logs/pipeline.log that are still in the file
    sf,  \* the one SnowflakeConnector instance: its connection and its cursor
    block,  \* "outside" or "inside" a with SnowflakeConnector() block
    left_by,  \* how the latest with block was left
    blocks_entered,  \* with blocks entered so far
    queries, \* queries executed inside the current with block
    sql_files,  \* names of the script files present in scripts/sql
    scripts_to_run,  \* what get_user_selection returned
    pipeline_pc,  \* position of run_sql_pipeline.main
    script_pos,  \* index in scripts_to_run of the next loop iteration
    executions,  \* the execute_sql_file calls made, in time order, with their result
    skipped_scripts, \* scripts the loop skipped with a warning
    sql_script,  \* the text of the SQL file, as a sequence of tokens
    statements,  \* the statements run_sql_from_file split the text into
    script_pc,  \* position of run_sql_from_file
    statement_pos,  \* index of the next statement of the loop
    statement_log,  \* the statements handed to the connector, in time order, with what happened
    final_df  \* index of the statement whose result is kept for the CSV, 0 for None

splitVars == <<variant, raw_data, rng, splits, prev_splits>>

featureVars == <<DEFAULT_CONFIG, raw_columns, selection>>

consensusVars == <<analyzer>>

reportVars == <<data_splits, report>>

thresholdVars == <<validation, optimal, scores, evaluation>>

trainVars == <<y_train, trained>>

explainVars == <<X_rows, explainer, explain_cfg, local_results>>

cacheVars == <<cache_files, explainer_call, explainer_calls>>

metricVars == <<metrics_input, metrics>>

runVars == <<has_run, run_calls, run_pc, run_pass, run_locals, run_name, run_result, run_trace>>

argVars == <<argv, cli_cfg, stage_reads>>

targetVars == <<target_frames, target_index, main_state, run_summary_log, prediction_rows, logged>>

orchestratorVars == <<instances, earlier_log_lines>>

connectorVars == <<sf, block, left_by, blocks_entered, queries>>

pipelineVars == <<sql_files, scripts_to_run, pipeline_pc, script_pos, executions, skipped_scripts>>

scriptVars == <<sql_script, statements, script_pc, statement_pos, statement_log, final_df>>

vars == <<variant, config, raw_data, rng, splits, prev_splits,
          DEFAULT_CONFIG, raw_columns, selection, analyzer,
          data_splits, report, validation, optimal, scores, evaluation,
          y_train, trained,
          X_rows, explainer, explain_cfg, local_results,
          cache_files, explainer_call, explainer_calls,
          metrics_input, metrics,
          has_run, run_calls, run_pc, run_pass, run_locals, run_name, run_result, run_trace,
          argv, cli_cfg, stage_reads,
          target_frames, target_index, main_state, run_summary_log, prediction_rows, logged,
          instances, earlier_log_lines,
          sf, block, left_by, blocks_entered, queries,
          sql_files, scripts_to_run, pipeline_pc, script_pos, executions, skipped_scripts,
          sql_script, statements, script_pc, statement_pos, statement_log, final_df>>

NaN == "NaN"

----------------------------------------------------------------------------
(* Bounds of the explored inputs *)

MaxMembers == 4     \* distinct FH_ID values in a dataset
MaxRows == 4        \* rows of a dataset
MaxCols == 2        \* columns of a dataset handed to select_features
MaxExclude == 2     \* entries of EXCLUDE_FEATURES
MaxScoredRows == 2  \* rows of the DataFrame given to RiskConsensusAnalyzer
MaxReportRows == 2  \* rows of all splits together in the reporting stage
MaxReportMembers == 2  \* distinct members in the reporting stage
MaxLevels == 3      \* distinct scores in the vector given to optimize_thresholds
MaxPos == 2         \* rows with label 1 sharing one score
MaxNeg == 3         \* rows with label 0 sharing one score
MaxEvalRows == 2    \* rows of the validation and of the test partition in the evaluation
MaxTrainRows == 4   \* rows of the training partition handed to a trainer
MaxExplainRows == 2 \* rows handed to extract_local_factors
MaxExplainerCalls == 2  \* get_shap_explainer calls, within one run or across runs
MaxMetricRows == 3  \* rows of the arrays handed to compute_metrics
MaxRunCalls == 2  \* calls of PipelineOrchestrator.run in one process
MaxTargets == 3  \* target variables of one RiskGrouper run
MaxEarlierRecords == 1  \* records earlier runs left in run_summary_log.csv
MaxWithBlocks == 4  \* with SnowflakeConnector() blocks of one process
MaxQueries == 2  \* queries executed inside one with block

----------------------------------------------------------------------------
(* Data splitter: src/data_prep/splitter.py, Engaged_Three_Tier_Regression.prepare_data *)

\* split_data's defaults, in percent
TEST_SIZE == 20
VAL_SIZE == 25
\* prepare_data's hard-coded random_state
THREE_TIER_SEED == 42

Seeds == {42, 7}
TargetValues == {NaN, "1"}

Range(s) == {s[i] : i \in DOMAIN s}

\* The columns of a dataset row that the splitter reads: the member id and
\* the target.
Cells == [FH_ID : 1..MaxMembers, y : TargetValues]

\* Member ids are opaque labels: datasets are enumerated up to renaming, the
\* ids numbered in order of first appearance.
FirstAppearanceOrder(df) ==
    \A i \in DOMAIN df :
        \/ df[i].FH_ID = 1
        \/ \E j \in 1..(i - 1) : df[j].FH_ID >= df[i].FH_ID - 1

\* A DataFrame: its rows in order, each with its (RangeIndex) index label.
DataFrames ==
    UNION { { [i \in 1..n |-> [idx |-> i, FH_ID |-> d[i].FH_ID, y |-> d[i].y]] :
                d \in {c \in [1..n -> Cells] : FirstAppearanceOrder(c)} } : n \in 0..MaxRows }

\* Series.unique(): the distinct values in order of first appearance.
RECURSIVE unique(_)
unique(s) ==
    IF s = <<>> THEN <<>>
    ELSE LET front == unique(SubSeq(s, 1, Len(s) - 1))
             last == s[Len(s)]
         IN IF last \in Range(front) THEN front ELSE Append(front, last)

FH_IDs(df) == [i \in DOMAIN df |-> df[i].FH_ID]

\* sklearn _validate_shuffle_split with a float test_size and train_size=None:
\* n_test = ceil(test_size * n_samples), n_train = n_samples - n_test.
NTest(n, test_size) == (test_size * n + 99) \div 100
NTrain(n, test_size) == n - NTest(n, test_size)

\* train_test_split(arr, test_size=..., random_state=seed) where perm is the
\* generator's permutation of 1..len(arr): test is the first n_test permuted
\* entries, train the following n_train.  An empty train set is a ValueError.
train_test_split(arr, test_size, perm) ==
    LET n == Len(arr)
        n_test == NTest(n, test_size)
        n_train == NTrain(n, test_size)
    IN IF n_train = 0
       THEN [status |-> "ValueError"]
       ELSE [status |-> "ok",
             train |-> [i \in 1..n_train |-> arr[perm[n_test + i]]],
             test |-> [i \in 1..n_test |-> arr[perm[i]]]]

\* df[df['FH_ID'].isin(members)]
isin(df, members) == SelectSeq(df, LAMBDA r : r.FH_ID \in Range(members))

\* df.dropna(subset=[target])
dropna(df) == SelectSeq(df, LAMBDA r : r.y # NaN)

\* A copy-paste slip: the test frame filtered by the validation members.
member_level_split_copy_paste(df, test_size, val_size, rs) ==
    LET unique_members == unique(FH_IDs(df))
        first == train_test_split(unique_members, test_size, rs[Len(unique_members)])
    IN IF first.status # "ok" THEN [status |-> "ValueError"]
       ELSE LET second == train_test_split(first.train, val_size, rs[Len(first.train)])
            IN IF second.status # "ok" THEN [status |-> "ValueError"]
               ELSE [status |-> "ok",
                     train |-> dropna(isin(df, second.train)),
                     val |-> dropna(isin(df, second.test)),
                     test |-> dropna(isin(df, second.test))]

\* A leak: the validation members drawn from all members instead of the
\* members left for training.
member_level_split_leak(df, test_size, val_size, rs) ==
    LET unique_members == unique(FH_IDs(df))
        first == train_test_split(unique_members, test_size, rs[Len(unique_members)])
    IN IF first.status # "ok" THEN [status |-> "ValueError"]
       ELSE LET second == train_test_split(unique_members, val_size, rs[Len(unique_members)])
            IN IF second.status # "ok" THEN [status |-> "ValueError"]
               ELSE [status |-> "ok",
                     train |-> dropna(isin(df, second.train)),
                     val |-> dropna(isin(df, second.test)),
                     test |-> dropna(isin(df, first.test))]

\* member_level_split(df, target, test_size, val_size, seed); rs[n] is
\* RandomState(seed).permutation(n).
member_level_split(df, test_size, val_size, rs) ==
    LET unique_members == unique(FH_IDs(df))
        first == train_test_split(unique_members, test_size, rs[Len(unique_members)])
    IN IF first.status # "ok" THEN [status |-> "ValueError"]
       ELSE LET second == train_test_split(first.train, val_size, rs[Len(first.train)])
            IN IF second.status # "ok" THEN [status |-> "ValueError"]
               ELSE [status |-> "ok",
                     train |-> dropna(isin(df, second.train)),
                     val |-> dropna(isin(df, second.test)),
                     test |-> dropna(isin(df, first.test))]

\* prepare_data: the empty frame returns (None, None, None); otherwise the
\* same member-level split with the fixed seed.
prepare_data(df, rs) ==
    IF df = <<>> THEN [status |-> "none_triple"]
    ELSE member_level_split(df, TEST_SIZE, VAL_SIZE, rs)

\* The array sizes for which the two train_test_split calls draw a permutation.
DrawnSizes(df) ==
    LET n == Len(unique(FH_IDs(df)))
    IN IF NTrain(n, TEST_SIZE) = 0 THEN {}
       ELSE IF NTrain(NTrain(n, TEST_SIZE), VAL_SIZE) = 0 THEN {n}
       ELSE {n, NTrain(n, TEST_SIZE)}

\* random_state=None: every call draws afresh.
UnseededPermutations(memo, seed, n) == Permutations(1..n)

\* random_state=seed: the permutation of 1..n is a function of (seed, n).
SeededPermutations(memo, seed, n) ==
    IF <<seed, n>> \in DOMAIN memo THEN {memo[<<seed, n>>]} ELSE Permutations(1..n)

\* The generator states a call can see: one permutation per drawn size.
RandomStates(memo, seed, sizes) ==
    IF sizes = {} THEN { <<>> }
    ELSE LET hi == CHOOSE n \in sizes : \A m \in sizes : m <= n
             lo == CHOOSE n \in sizes : \A m \in sizes : n <= m
         IN { [n \in sizes |-> IF n = hi THEN p ELSE q] :
                p \in SeededPermutations(memo, seed, hi),
                q \in SeededPermutations(memo, seed, lo) }

Remember(memo, seed, rs) ==
    [k \in DOMAIN memo \cup {<<seed, n>> : n \in DOMAIN rs} |->
        IF k \in DOMAIN memo THEN memo[k] ELSE rs[k[2]]]

NotCalled == [status |-> "not_called"]

\* The state of the components a specification does not exercise.
SplitIdle ==
    /\ variant = "none"
    /\ raw_data = <<>>
    /\ rng = <<>>
    /\ splits = NotCalled
    /\ prev_splits = NotCalled

FeaturesIdle ==
    /\ DEFAULT_CONFIG = <<>>
    /\ raw_columns = <<>>
    /\ selection = NotCalled

ConsensusIdle == analyzer = NotCalled

ReportIdle ==
    /\ data_splits = <<>>
    /\ report = <<>>

ThresholdIdle ==
    /\ validation = <<>>
    /\ optimal = NotCalled
    /\ scores = <<>>
    /\ evaluation = NotCalled

TrainIdle ==
    /\ y_train = <<>>
    /\ trained = NotCalled

ExplainIdle ==
    /\ X_rows = <<>>
    /\ explainer = <<>>
    /\ explain_cfg = <<>>
    /\ local_results = NotCalled

CacheIdle ==
    /\ cache_files = <<>>
    /\ explainer_call = NotCalled
    /\ explainer_calls = 0

MetricsIdle ==
    /\ metrics_input = <<>>
    /\ metrics = NotCalled

RunIdle ==
    /\ has_run = FALSE
    /\ run_calls = 0
    /\ run_pc = "idle"
    /\ run_pass = 0
    /\ run_locals = <<>>
    /\ run_name = ""
    /\ run_result = "none"
    /\ run_trace = <<>>

ArgsIdle ==
    /\ argv = <<>>
    /\ cli_cfg = <<>>
    /\ stage_reads = <<>>

TargetsIdle ==
    /\ target_frames = <<>>
    /\ target_index = 0
    /\ main_state = "not_started"
    /\ run_summary_log = <<>>
    /\ prediction_rows = <<>>
    /\ logged = <<>>

OrchestratorIdle ==
    /\ instances = 0
    /\ earlier_log_lines = <<>>

ConnectorIdle ==
    /\ sf = <<>>
    /\ block = "outside"
    /\ left_by = "none"
    /\ blocks_entered = 0
    /\ queries = 0

PipelineIdle ==
    /\ sql_files = {}
    /\ scripts_to_run = <<>>
    /\ pipeline_pc = "off"
    /\ script_pos = 0
    /\ executions = <<>>
    /\ skipped_scripts = {}

ScriptIdle ==
    /\ sql_script = <<>>
    /\ statements = <<>>
    /\ script_pc = "off"
    /\ statement_pos = 0
    /\ statement_log = <<>>
    /\ final_df = 0

InitSplit ==
    /\ ScriptIdle
    /\ PipelineIdle
    /\ ConnectorIdle
    /\ OrchestratorIdle
    /\ TargetsIdle
    /\ ArgsIdle
    /\ RunIdle
    /\ MetricsIdle
    /\ CacheIdle
    /\ ExplainIdle
    /\ TrainIdle
    /\ FeaturesIdle
    /\ ConsensusIdle
    /\ ReportIdle
    /\ ThresholdIdle
    /\ variant \in {"refactor", "three_tier"}
    /\ config \in [SEED : IF variant = "refactor" THEN Seeds ELSE {THREE_TIER_SEED}]
    /\ raw_data \in DataFrames
    /\ rng = <<>>
    /\ splits = NotCalled
    /\ prev_splits = NotCalled

\* split_data(df, config): reads SEED from the config and splits.
SplitData ==
    /\ variant = "refactor"
    /\ prev_splits = NotCalled
    /\ \E rs \in RandomStates(rng, config.SEED, DrawnSizes(raw_data)) :
          /\ splits' = member_level_split(raw_data, TEST_SIZE, VAL_SIZE, rs)
          /\ rng' = Remember(rng, config.SEED, rs)
    /\ prev_splits' = splits
    /\ UNCHANGED <<variant, config, raw_data>>
    /\ UNCHANGED <<featureVars, consensusVars, reportVars, thresholdVars, trainVars, explainVars, cacheVars, metricVars, runVars, argVars, targetVars, orchestratorVars, connectorVars, pipelineVars, scriptVars>>

\* prepare_data(df, target, features, logger) of the three-tier scripts.
PrepareData ==
    /\ variant = "three_tier"
    /\ prev_splits = NotCalled
    /\ \E rs \in RandomStates(rng, THREE_TIER_SEED,
                              IF raw_data = <<>> THEN {} ELSE DrawnSizes(raw_data)) :
          /\ splits' = prepare_data(raw_data, rs)
          /\ rng' = Remember(rng, THREE_TIER_SEED, rs)
    /\ prev_splits' = splits
    /\ UNCHANGED <<variant, config, raw_data>>
    /\ UNCHANGED <<featureVars, consensusVars, reportVars, thresholdVars, trainVars, explainVars, cacheVars, metricVars, runVars, argVars, targetVars, orchestratorVars, connectorVars, pipelineVars, scriptVars>>

NextSplit == SplitData \/ PrepareData

SpecSplit == InitSplit /\ [][NextSplit]_vars

----------------------------------------------------------------------------
(* Properties of the data splitter *)

Members(part) == {part[i].FH_ID : i \in DOMAIN part}

AllMembers == {raw_data[i].FH_ID : i \in DOMAIN raw_data}

LabelledMembers == {raw_data[i].FH_ID : i \in {j \in DOMAIN raw_data : raw_data[j].y # NaN}}

PartitionsOf(m) ==
    {p \in {"train", "val", "test"} : m \in Members(splits[p])}

\* C1: the member sets of the returned train, val and test partitions are
\* pairwise disjoint, for member_level_split and for prepare_data.
C1_SplitDisjoint ==
    splits.status = "ok" =>
        /\ Members(splits.train) \cap Members(splits.val) = {}
        /\ Members(splits.train) \cap Members(splits.test) = {}
        /\ Members(splits.val) \cap Members(splits.test) = {}

\* A split of a dataset in which a member has several rows and every
\* partition received rows.
C1_Witness ==
    /\ splits.status = "ok"
    /\ splits.train # <<>> /\ splits.val # <<>> /\ splits.test # <<>>
    /\ \E i, j \in DOMAIN splits.train :
          i # j /\ splits.train[i].FH_ID = splits.train[j].FH_ID

\* C2 as stated: every member of the input is in some returned partition.
C2_EveryMemberAssigned ==
    splits.status = "ok" =>
        Members(splits.train) \cup Members(splits.val) \cup Members(splits.test)
            = AllMembers

\* C2 as amended: the members with a non-null target in some row are each in
\* exactly one returned partition, and the members whose target is null in
\* every row are in none.
C2_LabelledMemberInExactlyOne ==
    splits.status = "ok" =>
        \A m \in AllMembers :
            IF m \in LabelledMembers
            THEN Cardinality(PartitionsOf(m)) = 1
            ELSE PartitionsOf(m) = {}

\* A returned split of a dataset that has a member without any labelled row
\* next to labelled members.
C2_Witness ==
    /\ splits.status = "ok"
    /\ LabelledMembers # {}
    /\ LabelledMembers # AllMembers

C4_EmptyInputGivesEmptyPartitions ==
    (splits.status # "not_called" /\ \A i \in DOMAIN raw_data : raw_data[i].y = NaN) =>
        \/ splits.status = "none_triple"
        \/ /\ splits.status = "ok"
           /\ splits.train = <<>> /\ splits.val = <<>> /\ splits.test = <<>>

----------------------------------------------------------------------------
(* Feature selector: src/data_prep/features.py *)

\* A column name is a Python string: a sequence of characters.
ColumnNames ==
    { <<"y">>, <<"Y">>, <<" ", "y">>,
      <<"i", "d">>, <<"I", "D">>, <<"i", "D", " ">>,
      <<"x">> }

TargetNames == { <<"Y">>, <<"y">> }

\* str.upper() on one character
upper_char(c) ==
    CASE c = "y" -> "Y"
      [] c = "i" -> "I"
      [] c = "d" -> "D"
      [] c = "x" -> "X"
      [] OTHER -> c

\* str.upper()
upper(str) == [i \in DOMAIN str |-> upper_char(str[i])]

\* str.strip(): leading and trailing whitespace removed
RECURSIVE strip(_)
strip(str) ==
    IF str = <<>> THEN <<>>
    ELSE IF Head(str) = " " THEN strip(Tail(str))
    ELSE IF str[Len(str)] = " " THEN strip(SubSeq(str, 1, Len(str) - 1))
    ELSE str

\* col.strip().upper()
normalize(str) == upper(strip(str))

\* The selector comparing the names as written.
select_features_exact(columns, exclude, target) ==
    LET keep(c) == c.name # target /\ c.name \notin exclude
        kept == SelectSeq(columns, keep)
        numeric == SelectSeq(kept, LAMBDA c : c.numeric)
        other == SelectSeq(kept, LAMBDA c : ~c.numeric)
    IN [status |-> "ok",
        features |-> [i \in DOMAIN numeric |-> numeric[i].name],
        skipped |-> [i \in DOMAIN other |-> other[i].name],
        warnings |-> [i \in DOMAIN other |-> other[i].name]]

\* The selector without the type check: every kept column is a feature.
select_features_untyped(columns, exclude, target) ==
    LET exclude_norm == {normalize(e) : e \in exclude}
        target_norm == normalize(target)
        keep(c) == normalize(c.name) # target_norm /\ normalize(c.name) \notin exclude_norm
        kept == SelectSeq(columns, keep)
    IN [status |-> "ok",
        features |-> [i \in DOMAIN kept |-> kept[i].name],
        skipped |-> <<>>,
        warnings |-> <<>>]

\* select_features(df, exclude, logger) with target = DEFAULT_CONFIG['TARGET']:
\* the columns in order, without those whose normalized name is the
\* normalized target or a normalized exclusion entry; the numeric ones are
\* features, the others are skipped, each with a logged warning.
select_features(columns, exclude, target) ==
    LET exclude_norm == {normalize(e) : e \in exclude}
        target_norm == normalize(target)
        keep(c) == normalize(c.name) # target_norm /\ normalize(c.name) \notin exclude_norm
        kept == SelectSeq(columns, keep)
        numeric == SelectSeq(kept, LAMBDA c : c.numeric)
        other == SelectSeq(kept, LAMBDA c : ~c.numeric)
    IN [status |-> "ok",
        features |-> [i \in DOMAIN numeric |-> numeric[i].name],
        skipped |-> [i \in DOMAIN other |-> other[i].name],
        warnings |-> [i \in DOMAIN other |-> other[i].name]]

\* DataFrame columns: distinct names, each numeric or not.
ColumnLists ==
    UNION { { c \in [1..n -> [name : ColumnNames, numeric : BOOLEAN]] :
                \A i, j \in 1..n : i # j => c[i].name # c[j].name } : n \in 0..MaxCols }

ExcludeLists == { e \in SUBSET ColumnNames : Cardinality(e) <= MaxExclude }

\* parse_args: the run config is a copy of DEFAULT_CONFIG; no command-line
\* flag writes TARGET or EXCLUDE_FEATURES.
InitFeatures ==
    /\ ScriptIdle
    /\ PipelineIdle
    /\ ConnectorIdle
    /\ OrchestratorIdle
    /\ TargetsIdle
    /\ ArgsIdle
    /\ RunIdle
    /\ MetricsIdle
    /\ CacheIdle
    /\ ExplainIdle
    /\ TrainIdle
    /\ SplitIdle
    /\ ConsensusIdle
    /\ ReportIdle
    /\ ThresholdIdle
    /\ DEFAULT_CONFIG \in [TARGET : TargetNames, EXCLUDE_FEATURES : ExcludeLists]
    /\ config = DEFAULT_CONFIG
    /\ raw_columns \in ColumnLists
    /\ selection = NotCalled

\* PipelineOrchestrator.run: select_features(raw_data, self.config['EXCLUDE_FEATURES'], logger)
SelectFeatures ==
    /\ selection = NotCalled
    /\ selection' = select_features(raw_columns, config.EXCLUDE_FEATURES, DEFAULT_CONFIG.TARGET)
    /\ UNCHANGED <<DEFAULT_CONFIG, raw_columns, config>>
    /\ UNCHANGED <<splitVars, consensusVars, reportVars, thresholdVars, trainVars, explainVars, cacheVars, metricVars, runVars, argVars, targetVars, orchestratorVars, connectorVars, pipelineVars, scriptVars>>

NextFeatures == SelectFeatures

SpecFeatures == InitFeatures /\ [][NextFeatures]_vars

----------------------------------------------------------------------------
(* Properties of the feature selector *)

lower_char(c) ==
    CASE c = "Y" -> "y"
      [] c = "I" -> "i"
      [] c = "D" -> "d"
      [] c = "X" -> "x"
      [] OTHER -> c

Trimmed(str) ==
    LET inked == {i \in DOMAIN str : str[i] # " "}
    IN IF inked = {} THEN <<>>
       ELSE LET lo == CHOOSE i \in inked : \A j \in inked : i <= j
                hi == CHOOSE i \in inked : \A j \in inked : j <= i
            IN SubSeq(str, lo, hi)

\* Two names are the same once trimmed and compared case-insensitively.
SameName(a, b) ==
    LET ta == Trimmed(a)
        tb == Trimmed(b)
    IN /\ Len(ta) = Len(tb)
       /\ \A i \in DOMAIN ta : lower_char(ta[i]) = lower_char(tb[i])

\* C5: the selected features contain neither the run's target column nor a
\* column whose name, trimmed and compared case-insensitively, is an entry of
\* the run's exclusion list.
C5_FeaturesExcludeTargetAndExclusions ==
    selection.status = "ok" =>
        \A i \in DOMAIN selection.features :
            /\ selection.features[i] # config.TARGET
            /\ \A e \in config.EXCLUDE_FEATURES : ~SameName(selection.features[i], e)

\* A selection that returned a feature, over columns among which a numeric
\* one differs from an exclusion entry only in case or padding.
C5_Witness ==
    /\ selection.status = "ok"
    /\ selection.features # <<>>
    /\ \E i \in DOMAIN raw_columns, e \in config.EXCLUDE_FEATURES :
          /\ raw_columns[i].numeric
          /\ raw_columns[i].name # e
          /\ SameName(raw_columns[i].name, e)
          /\ ~SameName(e, config.TARGET)

----------------------------------------------------------------------------
(* Consensus classifier: src/analysis/risk_consensus_analyzer.py *)

\* run_full_analysis's default thresholds, in hundredths
DEFAULT_LOW == 30
DEFAULT_HIGH == 65

\* The scores a row can carry, in hundredths
ScoreValues == {10, 15, 20, 30, 65, 70, 85, 90}

LR == "logistic_score"
XGB == "xgb_score"

\* The loop body of classify_consensus with "or" in place of "and".
consensus_of_row_any(lr, xgb, thresholds) ==
    LET lr_high == lr >= thresholds[LR].high
        lr_low == lr <= thresholds[LR].low
        xgb_high == xgb >= thresholds[XGB].high
        xgb_low == xgb <= thresholds[XGB].low
    IN IF lr_high \/ xgb_high THEN "high_risk"
       ELSE IF lr_low \/ xgb_low THEN "low_risk"
       ELSE "medium_risk"

\* The loop body of classify_consensus for one row.
consensus_of_row(lr, xgb, thresholds) ==
    LET lr_high == lr >= thresholds[LR].high
        lr_low == lr <= thresholds[LR].low
        xgb_high == xgb >= thresholds[XGB].high
        xgb_low == xgb <= thresholds[XGB].low
    IN IF lr_high /\ xgb_high THEN "high_risk"
       ELSE IF lr_low /\ xgb_low THEN "low_risk"
       ELSE "medium_risk"

\* classify_consensus: every row of self.df gets its consensus_risk.
classify_consensus(df, thresholds) ==
    [i \in DOMAIN df |->
        [df[i] EXCEPT !.consensus_risk = consensus_of_row(df[i].lr, df[i].xgb, thresholds)]]

\* get_bins_table (called through print_bins_table): the common bin edges are
\* np.linspace(min, max, bins + 1) over both models' scores; pd.cut raises a
\* ValueError when there is no row or all these scores are equal.
bins_table_raises(df) ==
    LET all_scores == {df[i].lr : i \in DOMAIN df} \cup {df[i].xgb : i \in DOMAIN df}
    IN Cardinality(all_scores) <= 1

ScoredFrames ==
    UNION { [1..n -> [lr : ScoreValues, xgb : ScoreValues, consensus_risk : {"unset"}]] :
              n \in 0..MaxScoredRows }

\* RiskConsensusAnalyzer(df, ...): thresholds start empty.
InitConsensus ==
    /\ ScriptIdle
    /\ PipelineIdle
    /\ ConnectorIdle
    /\ OrchestratorIdle
    /\ TargetsIdle
    /\ ArgsIdle
    /\ RunIdle
    /\ MetricsIdle
    /\ CacheIdle
    /\ ExplainIdle
    /\ TrainIdle
    /\ SplitIdle
    /\ FeaturesIdle
    /\ ReportIdle
    /\ ThresholdIdle
    /\ config = <<>>
    /\ \E df \in ScoredFrames :
          analyzer = [df |-> df, thresholds |-> <<>>, status |-> "constructed"]

\* run_full_analysis: print the bins table, set the default thresholds of
\* both models, classify.
RunFullAnalysis ==
    /\ analyzer.status # "not_called"
    /\ IF bins_table_raises(analyzer.df)
       THEN analyzer' = [analyzer EXCEPT !.status = "ValueError"]
       ELSE LET thresholds == [m \in {LR, XGB} |-> [low |-> DEFAULT_LOW, high |-> DEFAULT_HIGH]]
            IN analyzer' = [df |-> classify_consensus(analyzer.df, thresholds),
                            thresholds |-> thresholds,
                            status |-> "classified"]
    /\ UNCHANGED <<config, splitVars, featureVars, reportVars, thresholdVars, trainVars, explainVars, cacheVars, metricVars, runVars, argVars, targetVars, orchestratorVars, connectorVars, pipelineVars, scriptVars>>

\* classify_consensus called directly: a KeyError while the thresholds of a
\* model are not set.
ClassifyConsensus ==
    /\ analyzer.status # "not_called"
    /\ IF {LR, XGB} \subseteq DOMAIN analyzer.thresholds
       THEN analyzer' = [analyzer EXCEPT !.df = classify_consensus(analyzer.df, analyzer.thresholds),
                                         !.status = "classified"]
       ELSE analyzer' = [analyzer EXCEPT !.status = "KeyError"]
    /\ UNCHANGED <<config, splitVars, featureVars, reportVars, thresholdVars, trainVars, explainVars, cacheVars, metricVars, runVars, argVars, targetVars, orchestratorVars, connectorVars, pipelineVars, scriptVars>>

NextConsensus == RunFullAnalysis \/ ClassifyConsensus

SpecConsensus == InitConsensus /\ [][NextConsensus]_vars

----------------------------------------------------------------------------
(* Properties of the consensus classifier *)

BothHigh(row) ==
    /\ row.lr >= analyzer.thresholds[LR].high
    /\ row.xgb >= analyzer.thresholds[XGB].high

BothLow(row) ==
    /\ row.lr <= analyzer.thresholds[LR].low
    /\ row.xgb <= analyzer.thresholds[XGB].low

HasScores(row, lr, xgb) == row.lr = lr /\ row.xgb = xgb

\* C6: every classified row is exactly one of high_risk, medium_risk and
\* low_risk: high_risk iff both scores reach their model's high threshold,
\* otherwise low_risk iff both are at or below their model's low threshold,
\* otherwise medium_risk; with the thresholds 0.65 / 0.3 the scores
\* (0.85, 0.90) are high_risk, (0.1, 0.15) low_risk and (0.7, 0.2) medium_risk.
C6_ConsensusClassification ==
    analyzer.status = "classified" =>
        \A i \in DOMAIN analyzer.df :
            LET row == analyzer.df[i]
            IN /\ row.consensus_risk \in {"high_risk", "medium_risk", "low_risk"}
               /\ row.consensus_risk = "high_risk" <=> BothHigh(row)
               /\ ~BothHigh(row) => (row.consensus_risk = "low_risk" <=> BothLow(row))
               /\ (~BothHigh(row) /\ ~BothLow(row)) => row.consensus_risk = "medium_risk"
               /\ HasScores(row, 85, 90) => row.consensus_risk = "high_risk"
               /\ HasScores(row, 10, 15) => row.consensus_risk = "low_risk"
               /\ HasScores(row, 70, 20) => row.consensus_risk = "medium_risk"

\* A classified frame holding the agreeing row (0.85, 0.90) and the
\* disagreeing row (0.7, 0.2).
C6_Witness ==
    /\ analyzer.status = "classified"
    /\ \E i, j \in DOMAIN analyzer.df :
          /\ HasScores(analyzer.df[i], 85, 90)
          /\ HasScores(analyzer.df[j], 70, 20)
          /\ analyzer.df[j].consensus_risk = "medium_risk"

----------------------------------------------------------------------------
(* Consolidated individual report: PipelineOrchestrator.run (output writing)
   and src/reporting/individuals.py *)

\* write_full_consolidated_individuals' hard-coded values: the date cutoff
\* 2023-01-01 (as yyyymm) and the logistic cutoffs of the risk class
DATE_CUTOFF == 202301
REPORT_HIGH == 80
REPORT_MEDIUM == 50

SplitNames == <<"train", "val", "test">>

\* Period starts, as yyyymm: before the cutoff, between the cutoff and the
\* configured window, and inside the window
Months == {202212, 202306, 202407}

\* A row of a split with what the fitted models return for it: the logistic
\* and the ensemble probability (hundredths) and the local attribution.
ScoredRows ==
    [FH_ID : 1..MaxReportMembers, EFFECTIVE_MONTH_START : Months,
     logistic_prob : {20, 60, 90}, xgb_prob : {20, 90}, shap : {"s1", "s2"}]

\* The splitter's output: every member's rows are in one split.
SplitFrames ==
    { [name \in Range(SplitNames) |->
          SelectSeq(rows, LAMBDA r : split_of[r.FH_ID] = name)] :
        rows \in UNION { [1..n -> ScoredRows] : n \in 0..MaxReportRows },
        split_of \in [1..MaxReportMembers -> Range(SplitNames)] }

\* dict(zip(fh_ids, values)): one entry per member id, a later row replacing
\* an earlier one of the same member.
dict_zip(df, field) ==
    [m \in {df[i].FH_ID : i \in DOMAIN df} |->
        LET last == CHOOSE i \in DOMAIN df :
                        /\ df[i].FH_ID = m
                        /\ \A j \in DOMAIN df : df[j].FH_ID = m => j <= i
        IN df[last][field]]

\* Python's None where a probability is expected (no probability is negative)
NoProb == -1

\* dict.get(split, {}).get(fh_id, default)
dict_get(d, split, fh_id, default) ==
    IF fh_id \in DOMAIN d[split] THEN d[split][fh_id] ELSE default

\* The risk class of a report row: from the logistic probability alone.
risk_class(logistic_prob) ==
    IF logistic_prob # NoProb /\ logistic_prob >= REPORT_HIGH THEN "high"
    ELSE IF logistic_prob # NoProb /\ logistic_prob >= REPORT_MEDIUM THEN "medium"
    ELSE "low"

RECURSIVE concat(_, _)
concat(frames, names) ==
    IF names = <<>> THEN <<>>
    ELSE [i \in DOMAIN frames[Head(names)] |->
             [row |-> frames[Head(names)][i], split |-> Head(names)]]
         \o concat(frames, Tail(names))

\* write_full_consolidated_individuals: the splits concatenated, the rows
\* from the cutoff date on, each with the member's entry of the prediction
\* and attribution dicts.
write_full_consolidated_individuals(frames, logistic_preds_dict, xgb_preds_dict, shap_xgb_dict) ==
    LET all_df == SelectSeq(concat(frames, SplitNames),
                            LAMBDA r : r.row.EFFECTIVE_MONTH_START >= DATE_CUTOFF)
    IN [i \in DOMAIN all_df |->
          LET fh_id == all_df[i].row.FH_ID
              split == all_df[i].split
              logistic_prob == dict_get(logistic_preds_dict, split, fh_id, NoProb)
          IN [fh_id |-> fh_id,
              effective_month_start |-> all_df[i].row.EFFECTIVE_MONTH_START,
              split |-> split,
              logistic_prob |-> logistic_prob,
              xgboost_prob |-> dict_get(xgb_preds_dict, split, fh_id, NoProb),
              risk_class |-> risk_class(logistic_prob),
              xgboost_shap |-> dict_get(shap_xgb_dict, split, fh_id, "None")]]

InitReport ==
    /\ ScriptIdle
    /\ PipelineIdle
    /\ ConnectorIdle
    /\ OrchestratorIdle
    /\ TargetsIdle
    /\ ArgsIdle
    /\ RunIdle
    /\ MetricsIdle
    /\ CacheIdle
    /\ ExplainIdle
    /\ TrainIdle
    /\ SplitIdle
    /\ FeaturesIdle
    /\ ConsensusIdle
    /\ ThresholdIdle
    /\ config = <<>>
    /\ data_splits \in SplitFrames
    /\ report = <<>>

\* PipelineOrchestrator.run, "7. Output Writing": per split the predictions
\* and attributions are put into dicts keyed by FH_ID, then the consolidated
\* file is written.
WriteOutputs ==
    /\ data_splits # <<>>
    /\ report' = write_full_consolidated_individuals(
                    data_splits,
                    [name \in Range(SplitNames) |-> dict_zip(data_splits[name], "logistic_prob")],
                    [name \in Range(SplitNames) |-> dict_zip(data_splits[name], "xgb_prob")],
                    [name \in Range(SplitNames) |-> dict_zip(data_splits[name], "shap")])
    /\ UNCHANGED <<data_splits, config, splitVars, featureVars, consensusVars, thresholdVars, trainVars, explainVars, cacheVars, metricVars, runVars, argVars, targetVars, orchestratorVars, connectorVars, pipelineVars, scriptVars>>

NextReport == WriteOutputs

SpecReport == InitReport /\ [][NextReport]_vars

----------------------------------------------------------------------------
(* Properties of the consolidated report *)

\* C7 as stated: a report row is in the high tier only if the logistic and
\* the ensemble probability both reach the high threshold.
C7_HighTierNeedsBothModels ==
    \A i \in DOMAIN report :
        report[i].risk_class = "high" =>
            /\ report[i].logistic_prob >= DEFAULT_HIGH
            /\ report[i].xgboost_prob >= DEFAULT_HIGH

\* C8 as stated: every report row carries the probabilities and the
\* attribution of the row of its split with the same member and period.
C8_ReportRowCarriesOwnScores ==
    \A i \in DOMAIN report :
        \A j \in DOMAIN data_splits[report[i].split] :
            LET row == data_splits[report[i].split][j]
            IN (row.FH_ID = report[i].fh_id
                    /\ row.EFFECTIVE_MONTH_START = report[i].effective_month_start) =>
                /\ report[i].logistic_prob = row.logistic_prob
                /\ report[i].xgboost_prob = row.xgb_prob
                /\ report[i].xgboost_shap = row.shap

----------------------------------------------------------------------------
(* Threshold optimizer: optimize_thresholds of the three-tier scripts and
   the precision-recall stage of PipelineOrchestrator.run *)

\* The distinct values of a set of scores, ascending
RECURSIVE ascending(_)
ascending(S) ==
    IF S = {} THEN <<>>
    ELSE LET least == CHOOSE x \in S : \A z \in S : x <= z
         IN <<least>> \o ascending(S \ {least})

\* sklearn.metrics.precision_recall_curve.  One threshold per distinct score,
\* ascending; precision and recall are fractions <<numerator, denominator>>
\* and carry the final point (1, 0) that has no threshold.  Without a
\* positive label the recall is set to one for all thresholds.
precision_recall_curve(y_true, y_score) ==
    LET thresholds == ascending(Range(y_score))
        tps(t) == Cardinality({i \in DOMAIN y_score : y_score[i] >= t /\ y_true[i] = 1})
        ps(t) == Cardinality({i \in DOMAIN y_score : y_score[i] >= t})
        positives == Cardinality({i \in DOMAIN y_true : y_true[i] = 1})
    IN [precision |-> [i \in DOMAIN thresholds |->
                          <<tps(thresholds[i]), ps(thresholds[i])>>] \o << <<1, 1>> >>,
        recall |-> [i \in DOMAIN thresholds |->
                          IF positives = 0 THEN <<1, 1>>
                          ELSE <<tps(thresholds[i]), positives>>] \o << <<0, 1>> >>,
        thresholds |-> thresholds]

\* The comparison without the 1e-10 of the denominator
f1_greater_no_epsilon(p1, r1, p2, r2) ==
    (p1[1] * r1[1]) * (p2[1] * r2[2] + r2[1] * p2[2])
        > (p2[1] * r2[1]) * (p1[1] * r1[2] + r1[1] * p1[2])

\* f1_scores[i] > f1_scores[j], where f1 = 2*(p*r)/(p + r + 1e-10).  For
\* p = a/b and r = c/d, f1 = 2ac/(ad + cb + 1e-10*bd); cross-multiplied,
\* f1(p1,r1) - f1(p2,r2) has the sign of A + 1e-10*B for the integers A and
\* B below.  |B| is far below 10^10, so the sign is that of A, and that of
\* B where A = 0.
f1_greater(p1, r1, p2, r2) ==
    LET num1 == p1[1] * r1[1]
        num2 == p2[1] * r2[1]
        A == num1 * (p2[1] * r2[2] + r2[1] * p2[2])
                - num2 * (p1[1] * r1[2] + r1[1] * p1[2])
        B == num1 * (p2[2] * r2[2]) - num2 * (p1[2] * r1[2])
    IN A > 0 \/ (A = 0 /\ B > 0)

\* np.argmax over the f1 scores of the points: the first index of a maximum
argmax_f1(precision, recall) ==
    CHOOSE i \in DOMAIN precision :
        /\ \A j \in DOMAIN precision :
              ~f1_greater(precision[j], recall[j], precision[i], recall[i])
        /\ \A j \in 1..(i - 1) :
              f1_greater(precision[i], recall[i], precision[j], recall[j])

\* optimize_thresholds(y_val, val_probs, logger).  precision_recall_curve
\* raises ValueError for an empty y_true; thresholds[optimal_idx] raises
\* IndexError for the index of the final point.
optimize_thresholds(y_val, val_probs) ==
    IF y_val = <<>> THEN [status |-> "raises"]
    ELSE LET curve == precision_recall_curve(y_val, val_probs)
             optimal_idx == argmax_f1(curve.precision, curve.recall)
         IN IF optimal_idx \in DOMAIN curve.thresholds
            THEN [status |-> "returned",
                  optimal_threshold |-> curve.thresholds[optimal_idx]]
            ELSE [status |-> "raises"]

\* Score of the i-th distinct level, in hundredths
LevelScore(i) == i * (100 \div (MaxLevels + 1))

\* How many rows of each label share one score
LevelCounts == {c \in [pos : 0..MaxPos, neg : 0..MaxNeg] : c.pos + c.neg > 0}

\* The rows of the levels, ascending by score: a label and a score each
RECURSIVE rows_of(_)
rows_of(counts) ==
    IF counts = <<>> THEN <<>>
    ELSE LET c == counts[Len(counts)]
         IN rows_of(SubSeq(counts, 1, Len(counts) - 1))
            \o [i \in 1..(c.pos + c.neg) |->
                  [y |-> IF i <= c.pos THEN 1 ELSE 0,
                   prob |-> LevelScore(Len(counts))]]

\* precision_recall_curve sorts by score, so vectors are enumerated sorted.
ValidationSets ==
    { LET rows == rows_of(counts)
      IN [y_val |-> [i \in DOMAIN rows |-> rows[i].y],
          val_probs |-> [i \in DOMAIN rows |-> rows[i].prob]] :
        counts \in UNION { [1..n -> LevelCounts] : n \in 0..MaxLevels } }

InitOptimize ==
    /\ ScriptIdle
    /\ PipelineIdle
    /\ ConnectorIdle
    /\ OrchestratorIdle
    /\ TargetsIdle
    /\ ArgsIdle
    /\ RunIdle
    /\ MetricsIdle
    /\ CacheIdle
    /\ ExplainIdle
    /\ TrainIdle
    /\ SplitIdle
    /\ FeaturesIdle
    /\ ConsensusIdle
    /\ ReportIdle
    /\ config = <<>>
    /\ validation \in ValidationSets
    /\ optimal = NotCalled
    /\ scores = <<>>
    /\ evaluation = NotCalled

OptimizeThresholds ==
    /\ validation # <<>>
    /\ optimal = NotCalled
    /\ optimal' = optimize_thresholds(validation.y_val, validation.val_probs)
    /\ UNCHANGED <<validation, scores, evaluation, config>>
    /\ UNCHANGED <<splitVars, featureVars, consensusVars, reportVars, trainVars, explainVars, cacheVars, metricVars, runVars, argVars, targetVars, orchestratorVars, connectorVars, pipelineVars, scriptVars>>

NextOptimize == OptimizeThresholds

SpecOptimize == InitOptimize /\ [][NextOptimize]_vars

----------------------------------------------------------------------------
(* Test-set evaluation: PipelineOrchestrator.run (metrics and
   precision-recall stages), Engaged_Three_Tier_Regression.run_pipeline *)

\* The orchestrator's metrics threshold, 0.5
METRICS_THRESHOLD == 50

Models == {"logistic", "xgboost"}

\* A labelled row with the probability each fitted model gives it
EvalRows == [y : {0, 1}, logistic : {20, 60}, xgboost : {20, 60}]

\* The splitter gives every partition at least one member.
EvalFrames == UNION { [1..n -> EvalRows] : n \in 1..MaxEvalRows }

column(df, name) == [i \in DOMAIN df |-> df[i][name]]

\* (probs >= threshold).astype(int)
as_predictions(probs, threshold) ==
    [i \in DOMAIN probs |-> IF probs[i] >= threshold THEN 1 ELSE 0]

\* The orchestrator's "optimal threshold" of a model: the same computation
\* as optimize_thresholds over precision[:-1] and recall[:-1]
pr_stage_optimal_threshold(y_true, y_scores) ==
    LET curve == precision_recall_curve(y_true, y_scores)
        n == Len(curve.thresholds)
        optimal_idx == argmax_f1(SubSeq(curve.precision, 1, n), SubSeq(curve.recall, 1, n))
    IN curve.thresholds[optimal_idx]

InitEvaluate ==
    /\ ScriptIdle
    /\ PipelineIdle
    /\ ConnectorIdle
    /\ OrchestratorIdle
    /\ TargetsIdle
    /\ ArgsIdle
    /\ RunIdle
    /\ MetricsIdle
    /\ CacheIdle
    /\ ExplainIdle
    /\ TrainIdle
    /\ SplitIdle
    /\ FeaturesIdle
    /\ ConsensusIdle
    /\ ReportIdle
    /\ config = <<>>
    /\ validation = <<>>
    /\ optimal = NotCalled
    /\ scores \in [val : EvalFrames, test : EvalFrames]
    /\ evaluation = NotCalled

\* PipelineOrchestrator.run: the metrics of the test split are computed at
\* the fixed threshold; the precision-recall stage then derives each model's
\* optimal threshold from the test labels and scores and logs it.
OrchestratorMetrics ==
    /\ scores # <<>>
    /\ evaluation = NotCalled
    /\ evaluation' =
          [script |-> "PipelineOrchestrator.run",
           threshold |-> [m \in Models |-> METRICS_THRESHOLD],
           test_preds |-> [m \in Models |->
                             as_predictions(column(scores.test, m), METRICS_THRESHOLD)],
           logged_optimal |-> [m \in Models |->
                             pr_stage_optimal_threshold(column(scores.test, "y"),
                                                        column(scores.test, m))]]
    /\ UNCHANGED <<validation, optimal, scores, config>>
    /\ UNCHANGED <<splitVars, featureVars, consensusVars, reportVars, trainVars, explainVars, cacheVars, metricVars, runVars, argVars, targetVars, orchestratorVars, connectorVars, pipelineVars, scriptVars>>

\* run_pipeline, steps 4 and 5: one threshold, from the ensemble's
\* validation scores, converts both models' test probabilities.
RunPipelineEvaluation ==
    /\ scores # <<>>
    /\ evaluation = NotCalled
    /\ LET optimal_threshold ==
              optimize_thresholds(column(scores.val, "y"),
                                  column(scores.val, "xgboost")).optimal_threshold
       IN evaluation' =
             [script |-> "run_pipeline",
              threshold |-> [m \in Models |-> optimal_threshold],
              test_preds |-> [m \in Models |->
                                as_predictions(column(scores.test, m), optimal_threshold)],
              logged_optimal |-> [m \in Models |-> optimal_threshold]]
    /\ UNCHANGED <<validation, optimal, scores, config>>
    /\ UNCHANGED <<splitVars, featureVars, consensusVars, reportVars, trainVars, explainVars, cacheVars, metricVars, runVars, argVars, targetVars, orchestratorVars, connectorVars, pipelineVars, scriptVars>>

NextEvaluate == OrchestratorMetrics \/ RunPipelineEvaluation

SpecEvaluate == InitEvaluate /\ [][NextEvaluate]_vars

----------------------------------------------------------------------------
(* Properties of the thresholds *)

\* C9 as stated: each model's test predictions compare its test
\* probabilities with the threshold optimize_thresholds derives from that
\* model's validation scores.
C9_TestPredictionsUseOwnValidationThreshold ==
    evaluation # NotCalled =>
        \A m \in Models :
            evaluation.test_preds[m] =
                as_predictions(
                    column(scores.test, m),
                    optimize_thresholds(column(scores.val, "y"),
                                        column(scores.val, m)).optimal_threshold)

\* Counts of the validation vector at a cutoff t
TruePositives(t) ==
    Cardinality({i \in DOMAIN validation.y_val :
                    validation.val_probs[i] >= t /\ validation.y_val[i] = 1})

PredictedPositives(t) ==
    Cardinality({i \in DOMAIN validation.y_val : validation.val_probs[i] >= t})

ActualPositives ==
    Cardinality({i \in DOMAIN validation.y_val : validation.y_val[i] = 1})

\* F1 = 2*precision*recall/(precision+recall) = 2TP/(predicted + actual
\* positives), and 0 where precision*recall = 0.
F1Less(t1, t2) ==
    TruePositives(t1) * (PredictedPositives(t2) + ActualPositives)
        < TruePositives(t2) * (PredictedPositives(t1) + ActualPositives)

F1Equal(t1, t2) == ~F1Less(t1, t2) /\ ~F1Less(t2, t1)

\* precision + recall = TP*(predicted + actual)/(predicted*actual)
SumLess(t1, t2) ==
    TruePositives(t1) * (PredictedPositives(t1) + ActualPositives) * PredictedPositives(t2)
        < TruePositives(t2) * (PredictedPositives(t2) + ActualPositives) * PredictedPositives(t1)

\* 2*precision*recall/(precision+recall+1e-10) is F1*s/(s + 1e-10) with
\* s = precision+recall: among cutoffs of one nonzero F1 it grows with s.
F1EpsilonLess(t1, t2) ==
    \/ F1Less(t1, t2)
    \/ F1Equal(t1, t2) /\ TruePositives(t1) > 0 /\ SumLess(t1, t2)

Thresholds == Range(validation.val_probs)

\* C10 as stated: for every vector optimize_thresholds returns the lowest
\* of the curve's thresholds at which F1 is maximal.
C10_ReturnsFirstMaxF1 ==
    optimal # NotCalled =>
        /\ optimal.status = "returned"
        /\ optimal.optimal_threshold \in Thresholds
        /\ \A t \in Thresholds :
              /\ ~F1Less(optimal.optimal_threshold, t)
              /\ t < optimal.optimal_threshold => F1Less(t, optimal.optimal_threshold)

\* C10 amended: for every non-empty vector, all-positive and all-zero labels
\* included, optimize_thresholds returns the lowest of the curve's thresholds
\* at which 2*precision*recall/(precision+recall+1e-10) is maximal.
C10_ReturnsFirstMaxF1Epsilon ==
    (optimal # NotCalled /\ validation.y_val # <<>>) =>
        /\ optimal.status = "returned"
        /\ optimal.optimal_threshold \in Thresholds
        /\ \A t \in Thresholds :
              /\ ~F1EpsilonLess(optimal.optimal_threshold, t)
              /\ t < optimal.optimal_threshold => F1EpsilonLess(t, optimal.optimal_threshold)

\* A threshold was returned although a lower one has the same nonzero F1.
C10_Witness ==
    /\ optimal # NotCalled
    /\ optimal.status = "returned"
    /\ \E t \in Thresholds :
          /\ t < optimal.optimal_threshold
          /\ F1Equal(t, optimal.optimal_threshold)
          /\ TruePositives(t) > 0

----------------------------------------------------------------------------
(* Model trainers: src/models/logistic.py, src/models/xgboost.py,
   RiskGrouper.prepare_and_run_models *)

\* Folds of the hyperparameter searches
XGB_CV == 3
RISKGROUPER_CV == 2

LabelVectors == UNION { [1..n -> {0, 1}] : n \in 0..MaxTrainRows }

count(y, label) == Cardinality({i \in DOMAIN y : y[i] = label})

classes(y) == {y[i] : i \in DOMAIN y}

\* LogisticRegression.fit raises ValueError for no rows and for a target
\* with one class, whatever the solver.
logistic_fit(y) == IF Cardinality(classes(y)) < 2 THEN "raises" ELSE "returned"

\* What fitting the search of an XGBClassifier can do.  Fewer rows than folds
\* raise.  The repository checks nothing about the classes: with one class
\* the installed xgboost and scikit-learn decide, some versions raising,
\* others fitting a constant model.
search_fit_outcomes(y, cv) ==
    IF Len(y) < cv THEN {"raises"}
    ELSE IF Cardinality(classes(y)) < 2 THEN {"raises", "returned"}
    ELSE {"returned"}

\* A weight is a fraction <<numerator, denominator>>.
no_weight == <<>>

\* train_logistic(train_data, features, config)
train_logistic(y) ==
    [trainer |-> "train_logistic",
     status |-> logistic_fit(y),
     weight_computed |-> FALSE,
     scale_pos_weight |-> no_weight,
     candidate_weights |-> {},
     estimator_weight |-> no_weight]

\* train_xgboost(train_data, features, config): the weight is the only entry
\* of the search's scale_pos_weight list, so every sampled candidate and the
\* refitted best estimator carry it.
train_xgboost(y, fit) ==
    LET n_pos == count(y, 1)
        n_neg == count(y, 0)
        scale_pos_weight == IF n_pos > 0 THEN <<n_neg, n_pos>> ELSE <<1, 1>>
    IN [trainer |-> "train_xgboost",
        status |-> fit,
        weight_computed |-> TRUE,
        scale_pos_weight |-> scale_pos_weight,
        candidate_weights |-> IF Len(y) < XGB_CV THEN {} ELSE {scale_pos_weight},
        estimator_weight |-> IF fit = "returned" THEN scale_pos_weight ELSE no_weight]

\* prepare_and_run_models, steps B and C.  The baseline logistic regression
\* is fitted first.  y_train.value_counts()[1] is a lookup by label: without
\* a row of label 1 it raises KeyError, and so does value_counts()[0]
\* without a row of label 0.
prepare_and_run_models(y, fit) ==
    LET value_counts == [label \in classes(y) |-> count(y, label)]
        raises == [trainer |-> "prepare_and_run_models",
                   status |-> "raises",
                   weight_computed |-> FALSE,
                   scale_pos_weight |-> no_weight,
                   candidate_weights |-> {},
                   estimator_weight |-> no_weight]
    IN IF logistic_fit(y) = "raises" THEN raises
       ELSE IF 1 \notin DOMAIN value_counts THEN raises
       ELSE IF value_counts[1] > 0 /\ 0 \notin DOMAIN value_counts THEN raises
       ELSE LET scale_pos_weight ==
                    IF value_counts[1] > 0 THEN <<value_counts[0], value_counts[1]>>
                    ELSE <<1, 1>>
            IN [trainer |-> "prepare_and_run_models",
                status |-> fit,
                weight_computed |-> TRUE,
                scale_pos_weight |-> scale_pos_weight,
                candidate_weights |-> IF Len(y) < RISKGROUPER_CV THEN {} ELSE {scale_pos_weight},
                estimator_weight |-> IF fit = "returned" THEN scale_pos_weight ELSE no_weight]

InitTrain ==
    /\ ScriptIdle
    /\ PipelineIdle
    /\ ConnectorIdle
    /\ OrchestratorIdle
    /\ TargetsIdle
    /\ ArgsIdle
    /\ RunIdle
    /\ MetricsIdle
    /\ CacheIdle
    /\ ExplainIdle
    /\ SplitIdle
    /\ FeaturesIdle
    /\ ConsensusIdle
    /\ ReportIdle
    /\ ThresholdIdle
    /\ config = <<>>
    /\ y_train \in LabelVectors
    /\ trained = NotCalled

TrainLogistic ==
    /\ trained = NotCalled
    /\ trained' = train_logistic(y_train)
    /\ UNCHANGED <<y_train, config>>
    /\ UNCHANGED <<splitVars, featureVars, consensusVars, reportVars, thresholdVars, explainVars, cacheVars, metricVars, runVars, argVars, targetVars, orchestratorVars, connectorVars, pipelineVars, scriptVars>>

TrainXGBoost ==
    /\ trained = NotCalled
    /\ \E fit \in search_fit_outcomes(y_train, XGB_CV) :
          trained' = train_xgboost(y_train, fit)
    /\ UNCHANGED <<y_train, config>>
    /\ UNCHANGED <<splitVars, featureVars, consensusVars, reportVars, thresholdVars, explainVars, cacheVars, metricVars, runVars, argVars, targetVars, orchestratorVars, connectorVars, pipelineVars, scriptVars>>

PrepareAndRunModels ==
    /\ trained = NotCalled
    /\ \E fit \in search_fit_outcomes(y_train, RISKGROUPER_CV) :
          trained' = prepare_and_run_models(y_train, fit)
    /\ UNCHANGED <<y_train, config>>
    /\ UNCHANGED <<splitVars, featureVars, consensusVars, reportVars, thresholdVars, explainVars, cacheVars, metricVars, runVars, argVars, targetVars, orchestratorVars, connectorVars, pipelineVars, scriptVars>>

NextTrain == TrainLogistic \/ TrainXGBoost \/ PrepareAndRunModels

SpecTrain == InitTrain /\ [][NextTrain]_vars

----------------------------------------------------------------------------
(* Properties of the trainers *)

Negatives == Cardinality({i \in DOMAIN y_train : y_train[i] = 0})

Positives == Cardinality({i \in DOMAIN y_train : y_train[i] = 1})

\* The fraction w equals num/den
IsRatio(w, num, den) == w[1] * den = num * w[2]

\* C11 as stated: an ensemble trainer computes the weight negatives/positives,
\* or 1 without positives, and every candidate of the search and the returned
\* model use that weight.
C11_PositiveClassWeight ==
    (trained # NotCalled /\ trained.trainer \in {"train_xgboost", "prepare_and_run_models"}) =>
        /\ trained.weight_computed
        /\ IF Positives > 0
           THEN IsRatio(trained.scale_pos_weight, Negatives, Positives)
           ELSE IsRatio(trained.scale_pos_weight, 1, 1)
        /\ \A w \in trained.candidate_weights : w = trained.scale_pos_weight
        /\ trained.status = "returned" => trained.estimator_weight = trained.scale_pos_weight

\* C12 as stated: train_logistic and train_xgboost return no model for a
\* training target with fewer than two distinct classes.
C12_SingleClassFailsFast ==
    (/\ trained # NotCalled
     /\ trained.trainer \in {"train_logistic", "train_xgboost"}
     /\ Cardinality({y_train[i] : i \in DOMAIN y_train}) < 2) =>
        trained.status = "raises"

----------------------------------------------------------------------------
(* Local attribution: extract_local_factors of src/models/shap_tools.py *)

\* Contributions are counted in units of the configured EPSILON (1e-6).
EPSILON == 1

\* A null cell of a feature row (feature values are not negative)
NullCell == -1

\* X.columns: a flag-valued feature and a continuous one
FeatureNames == <<"flag", "cost">>

FlagFeatures == {"flag"}

\* Feature rows, by position in X.columns: a row of values or a row of nulls
FeatureRows == {<<0, 4>>, <<1, 4>>, <<NullCell, NullCell>>}

isnull_all(row) == \A j \in DOMAIN row : row[j] = NullCell

\* What explainer(row) does: it raises, or it returns an Explanation with
\* the base value, one contribution per feature and, as its data, the row.
\* output is the fitted model's prediction for the row, which the
\* Explanation does not carry.  (values is a float array: no element of it
\* is None.)
ExplainerAnswers ==
    {[kind |-> "raises"]}
    \cup { [kind |-> "values", base_values |-> 5, values |-> <<c1, c2>>,
            output |-> 5 + c1 + c2 + drift] :
             c1 \in {-2, 2}, c2 \in {-2, 0, 1, 2}, drift \in {0, 1} }

NotAsked == [kind |-> "not_asked"]

\* Batches: rows with the explainer's answer to each row it is asked about
ExplainBatches ==
    UNION { [1..n -> { [row |-> r, sv |-> a] :
                          r \in {x \in FeatureRows : ~isnull_all(x)},
                          a \in ExplainerAnswers }
                     \cup { [row |-> r, sv |-> NotAsked] :
                          r \in {x \in FeatureRows : isnull_all(x)} }] :
            n \in 0..MaxExplainRows }

abs(x) == IF x < 0 THEN -x ELSE x

RECURSIVE sum(_)
sum(seq) == IF seq = <<>> THEN 0 ELSE Head(seq) + sum(Tail(seq))

\* sorted(pairs, key=lambda x: sign * x[1]): ascending by key, stable
RECURSIVE sorted(_, _)
sorted(pairs, sign) ==
    IF pairs = <<>> THEN <<>>
    ELSE LET first == CHOOSE i \in DOMAIN pairs :
                         /\ \A j \in DOMAIN pairs : sign * pairs[i][2] <= sign * pairs[j][2]
                         /\ \A j \in 1..(i - 1) : sign * pairs[j][2] > sign * pairs[i][2]
         IN <<pairs[first]>>
            \o sorted(SubSeq(pairs, 1, first - 1) \o SubSeq(pairs, first + 1, Len(pairs)), sign)

\* seq[:n]
take(seq, n) == SubSeq(seq, 1, IF Len(seq) < n THEN Len(seq) ELSE n)

\* The record of a row before its attribution; an empty
\* reconstruction_error stands for None.
placeholder(idx) ==
    [row_idx |-> idx,
     base_value |-> NoProb,
     increasing_factors |-> <<>>,
     decreasing_factors |-> <<>>,
     reconstruction_error |-> <<>>]

\* The body of the loop for one row: the (feature, contribution) pairs that
\* pass the filter, sorted and cut to topn; the reconstruction error is
\* abs(base + sum of the listed contributions - sv.data[0]), and sv.data[0]
\* is the row's feature vector.
local_factors_of_row(idx, row, sv, epsilon, topn, binary_features) ==
    IF isnull_all(row) \/ sv.kind # "values" THEN placeholder(idx)
    ELSE LET listed(j) ==
                 IF FeatureNames[j] \in binary_features
                 THEN row[j] = 1
                 ELSE abs(sv.values[j]) >= epsilon
             pairs == [j \in DOMAIN row |-> <<FeatureNames[j], sv.values[j]>>]
             increasing ==
                 take(sorted(SelectSeq(pairs, LAMBDA p :
                        /\ \E j \in DOMAIN row : FeatureNames[j] = p[1] /\ listed(j)
                        /\ p[2] > 0), -1), topn)
             decreasing ==
                 take(sorted(SelectSeq(pairs, LAMBDA p :
                        /\ \E j \in DOMAIN row : FeatureNames[j] = p[1] /\ listed(j)
                        /\ p[2] < 0), 1), topn)
             total == sv.base_values
                        + sum([k \in DOMAIN (increasing \o decreasing) |->
                                  (increasing \o decreasing)[k][2]])
         IN [row_idx |-> idx,
             base_value |-> sv.base_values,
             increasing_factors |-> increasing,
             decreasing_factors |-> decreasing,
             reconstruction_error |-> [j \in DOMAIN row |-> abs(total - row[j])]]

\* A variant that leaves out the rows without an attribution
extract_local_factors_skipping(batch, cfg, binary_features) ==
    SelectSeq([idx \in DOMAIN batch |->
                  local_factors_of_row(idx, batch[idx].row, batch[idx].sv,
                                       cfg.EPSILON, cfg.TOP_N, binary_features)],
              LAMBDA r : r.base_value # NoProb)

\* extract_local_factors(explainer, X, cfg, binary_features)
extract_local_factors(batch, cfg, binary_features) ==
    [idx \in DOMAIN batch |->
        local_factors_of_row(idx, batch[idx].row, batch[idx].sv,
                             cfg.EPSILON, cfg.TOP_N, binary_features)]

InitExplain ==
    /\ ScriptIdle
    /\ PipelineIdle
    /\ ConnectorIdle
    /\ OrchestratorIdle
    /\ TargetsIdle
    /\ ArgsIdle
    /\ RunIdle
    /\ MetricsIdle
    /\ CacheIdle
    /\ SplitIdle
    /\ FeaturesIdle
    /\ ConsensusIdle
    /\ ReportIdle
    /\ ThresholdIdle
    /\ TrainIdle
    /\ config = <<>>
    /\ \E batch \in ExplainBatches :
          /\ X_rows = [i \in DOMAIN batch |-> batch[i].row]
          /\ explainer = [i \in DOMAIN batch |-> batch[i].sv]
    /\ explain_cfg \in [EPSILON : {EPSILON}, TOP_N : {1, 2}]
    /\ local_results = NotCalled

\* A call with the flag features of the data as binary_features
ExtractLocalFactors ==
    /\ explain_cfg # <<>>
    /\ local_results = NotCalled
    /\ local_results' =
          [status |-> "returned",
           binary_features |-> FlagFeatures,
           records |-> extract_local_factors(
                          [i \in DOMAIN X_rows |-> [row |-> X_rows[i], sv |-> explainer[i]]],
                          explain_cfg, FlagFeatures)]
    /\ UNCHANGED <<X_rows, explainer, explain_cfg, config>>
    /\ UNCHANGED <<splitVars, featureVars, consensusVars, reportVars, thresholdVars, trainVars, cacheVars, metricVars, runVars, argVars, targetVars, orchestratorVars, connectorVars, pipelineVars, scriptVars>>

\* PipelineOrchestrator.run: extract_local_factors(explainer_xgb,
\* X_split_xgb, self.config, set())
OrchestratorLocalFactors ==
    /\ explain_cfg # <<>>
    /\ local_results = NotCalled
    /\ local_results' =
          [status |-> "returned",
           binary_features |-> {},
           records |-> extract_local_factors(
                          [i \in DOMAIN X_rows |-> [row |-> X_rows[i], sv |-> explainer[i]]],
                          explain_cfg, {})]
    /\ UNCHANGED <<X_rows, explainer, explain_cfg, config>>
    /\ UNCHANGED <<splitVars, featureVars, consensusVars, reportVars, thresholdVars, trainVars, cacheVars, metricVars, runVars, argVars, targetVars, orchestratorVars, connectorVars, pipelineVars, scriptVars>>

NextExplain == ExtractLocalFactors \/ OrchestratorLocalFactors

SpecExplain == InitExplain /\ [][NextExplain]_vars

----------------------------------------------------------------------------
(* Properties of the local attribution *)

Explained == local_results # NotCalled

\* Row i got an attribution, not the placeholder
Attributed(i) == local_results.records[i].base_value # NoProb

FeatureIndex(name) == CHOOSE j \in DOMAIN FeatureNames : FeatureNames[j] = name

Contribution(i, name) == explainer[i].values[FeatureIndex(name)]

\* Eligibility as the claim states it: a flag feature when its value in the
\* row is 1, a continuous one when its contribution exceeds EPSILON.
Eligible(i, name) ==
    IF name \in FlagFeatures
    THEN X_rows[i][FeatureIndex(name)] = 1
    ELSE Contribution(i, name) > explain_cfg.EPSILON
            \/ Contribution(i, name) < -explain_cfg.EPSILON

Listed(factors) == {factors[k][1] : k \in DOMAIN factors}

\* C13 as stated: signs, the TOP_N cap, the largest eligible contributions,
\* and the eligibility of every listed factor.
C13_FactorListsFiltered ==
    Explained =>
        \A i \in DOMAIN local_results.records :
            Attributed(i) =>
                LET inc == local_results.records[i].increasing_factors
                    dec == local_results.records[i].decreasing_factors
                IN /\ \A k \in DOMAIN inc : inc[k][2] > 0
                   /\ \A k \in DOMAIN dec : dec[k][2] < 0
                   /\ Len(inc) <= explain_cfg.TOP_N
                   /\ Len(dec) <= explain_cfg.TOP_N
                   /\ \A name \in Listed(inc) \cup Listed(dec) : Eligible(i, name)
                   /\ \A name \in Range(FeatureNames) \ Listed(inc) :
                         (Eligible(i, name) /\ Contribution(i, name) > 0) =>
                             /\ Len(inc) = explain_cfg.TOP_N
                             /\ \A k \in DOMAIN inc : inc[k][2] >= Contribution(i, name)
                   /\ \A name \in Range(FeatureNames) \ Listed(dec) :
                         (Eligible(i, name) /\ Contribution(i, name) < 0) =>
                             /\ Len(dec) = explain_cfg.TOP_N
                             /\ \A k \in DOMAIN dec : dec[k][2] <= Contribution(i, name)

\* C14 as stated: the reconstruction error of an attributed row is one
\* number, the magnitude of base value + all contributions of the row - the
\* model's output for the row.
C14_ReconstructionError ==
    Explained =>
        \A i \in DOMAIN local_results.records :
            Attributed(i) =>
                local_results.records[i].reconstruction_error =
                    << abs(explainer[i].base_values
                           + Contribution(i, "flag") + Contribution(i, "cost")
                           - explainer[i].output) >>

IsPlaceholder(r) ==
    /\ r.base_value = NoProb
    /\ r.increasing_factors = <<>>
    /\ r.decreasing_factors = <<>>
    /\ r.reconstruction_error = <<>>

AllNull(i) == \A j \in DOMAIN X_rows[i] : X_rows[i][j] = NullCell

\* C15: one record per input row, in row order; the placeholder for an
\* all-null row and for a row whose attribution raises; every other row is
\* attributed with the base value the explainer gave for it.
C15_OneRecordPerRow ==
    Explained =>
        /\ Len(local_results.records) = Len(X_rows)
        /\ \A i \in DOMAIN X_rows :
              /\ local_results.records[i].row_idx = i
              /\ (AllNull(i) \/ explainer[i].kind = "raises")
                    => IsPlaceholder(local_results.records[i])
              /\ (~AllNull(i) /\ explainer[i].kind = "values")
                    => local_results.records[i].base_value = explainer[i].base_values

\* A batch in which a row without an attribution is followed by an
\* attributed one.
C15_Witness ==
    /\ Explained
    /\ \E i, j \in DOMAIN X_rows :
          /\ i < j
          /\ (AllNull(i) \/ explainer[i].kind = "raises")
          /\ IsPlaceholder(local_results.records[i])
          /\ Attributed(j)

----------------------------------------------------------------------------
(* Explainer cache: get_shap_explainer of src/models/shap_tools.py *)

FittedModels == {"model_a", "model_b"}

\* Background frames, as sets of row ids
Backgrounds == {{1}, {2}, {1, 2}}

\* The orchestrator's two cache paths
CachePaths == {"output/shap_xgb.pkl", "output/shap_logistic.pkl"}

\* X_bg.sample(n=sample_cap, random_state=seed): a fixed function of the
\* frame; which rows it keeps is not specified here.
sample(X_bg, n) == CHOOSE S \in SUBSET X_bg : Cardinality(S) = n

capped(X_bg, sample_cap) ==
    IF Cardinality(X_bg) > sample_cap THEN sample(X_bg, sample_cap) ELSE X_bg

\* get_shap_explainer(model, X_bg, model_type, cache_path, logger, cfg):
\* the explainer it returns and the files it leaves
get_shap_explainer(files, model, X_bg, cache_path, sample_cap) ==
    IF cache_path \in DOMAIN files
    THEN [explainer |-> files[cache_path], files |-> files]
    ELSE LET built == [model |-> model, background |-> capped(X_bg, sample_cap)]
         IN [explainer |-> built,
             files |-> [f \in DOMAIN files \cup {cache_path} |->
                           IF f = cache_path THEN built ELSE files[f]]]

InitCache ==
    /\ ScriptIdle
    /\ PipelineIdle
    /\ ConnectorIdle
    /\ OrchestratorIdle
    /\ TargetsIdle
    /\ ArgsIdle
    /\ RunIdle
    /\ MetricsIdle
    /\ SplitIdle
    /\ FeaturesIdle
    /\ ConsensusIdle
    /\ ReportIdle
    /\ ThresholdIdle
    /\ TrainIdle
    /\ ExplainIdle
    /\ config = <<>>
    /\ cache_files = <<>>
    /\ explainer_call = NotCalled
    /\ explainer_calls = 0

GetShapExplainer ==
    /\ explainer_calls < MaxExplainerCalls
    /\ \E model \in FittedModels, X_bg \in Backgrounds,
          cache_path \in CachePaths, sample_cap \in {1, 2} :
          LET call == get_shap_explainer(cache_files, model, X_bg, cache_path, sample_cap)
          IN /\ cache_files' = call.files
             /\ explainer_call' = [status |-> "returned",
                                   model |-> model,
                                   X_bg |-> X_bg,
                                   cache_path |-> cache_path,
                                   sample_cap |-> sample_cap,
                                   explainer |-> call.explainer]
    /\ explainer_calls' = explainer_calls + 1
    /\ UNCHANGED config
    /\ UNCHANGED <<splitVars, featureVars, consensusVars, reportVars, thresholdVars, trainVars, explainVars, metricVars, runVars, argVars, targetVars, orchestratorVars, connectorVars, pipelineVars, scriptVars>>

NextCache == GetShapExplainer

SpecCache == InitCache /\ [][NextCache]_vars

----------------------------------------------------------------------------
(* Properties of the explainer cache *)

\* C16 as stated: the explainer a call returns was built from the call's
\* model and from the call's background, capped.
C16_ExplainerMatchesModelAndBackground ==
    explainer_call # NotCalled =>
        /\ explainer_call.explainer.model = explainer_call.model
        /\ explainer_call.explainer.background \subseteq explainer_call.X_bg
        /\ Cardinality(explainer_call.explainer.background)
              = IF Cardinality(explainer_call.X_bg) > explainer_call.sample_cap
                THEN explainer_call.sample_cap
                ELSE Cardinality(explainer_call.X_bg)

----------------------------------------------------------------------------
(* Metrics: compute_metrics of src/models/metrics.py *)

\* One row of the three arrays: the label, the prediction, the probability
MetricRows == [y_true : {0, 1}, y_pred : {0, 1}, y_prob : {0, 50, 100}]

MetricInputs ==
    [rows : UNION { [1..n -> MetricRows] : n \in 1..MaxMetricRows },
     model_name : {"logistic", "xgboost"}]

\* Rows with the given label and prediction
cell(rows, actual, predicted) ==
    Cardinality({i \in DOMAIN rows :
                    rows[i].y_true = actual /\ rows[i].y_pred = predicted})

\* scikit-learn's scores, as fractions <<numerator, denominator>>; a score
\* with a zero denominator is reported as 0.
ratio(num, den) == IF den = 0 THEN <<0, 1>> ELSE <<num, den>>

f1_score(rows) ==
    ratio(2 * cell(rows, 1, 1),
          2 * cell(rows, 1, 1) + cell(rows, 0, 1) + cell(rows, 1, 0))

precision_score(rows) == ratio(cell(rows, 1, 1), cell(rows, 1, 1) + cell(rows, 0, 1))

recall_score(rows) == ratio(cell(rows, 1, 1), cell(rows, 1, 1) + cell(rows, 1, 0))

accuracy_score(rows) == ratio(cell(rows, 1, 1) + cell(rows, 0, 0), Len(rows))

\* compute_metrics(y_true, y_pred, y_prob, threshold, model_name, ...): the
\* confusion cells are (0, 0, 0, 0) unless y_true holds both labels.
compute_metrics(rows, threshold, model_name) ==
    LET both == Cardinality({rows[i].y_true : i \in DOMAIN rows}) > 1
    IN [f1 |-> f1_score(rows),
        precision |-> precision_score(rows),
        recall |-> recall_score(rows),
        accuracy |-> accuracy_score(rows),
        roc_auc_defined |-> both,
        tn |-> IF both THEN cell(rows, 0, 0) ELSE 0,
        fp |-> IF both THEN cell(rows, 0, 1) ELSE 0,
        fn |-> IF both THEN cell(rows, 1, 0) ELSE 0,
        tp |-> IF both THEN cell(rows, 1, 1) ELSE 0,
        threshold_used |-> threshold,
        pseudo_r2 |-> IF model_name = "logistic" THEN "float or None" ELSE "N/A"]

InitMetrics ==
    /\ ScriptIdle
    /\ PipelineIdle
    /\ ConnectorIdle
    /\ OrchestratorIdle
    /\ TargetsIdle
    /\ ArgsIdle
    /\ RunIdle
    /\ SplitIdle
    /\ FeaturesIdle
    /\ ConsensusIdle
    /\ ReportIdle
    /\ ThresholdIdle
    /\ TrainIdle
    /\ ExplainIdle
    /\ CacheIdle
    /\ config = <<>>
    /\ metrics_input \in MetricInputs
    /\ metrics = NotCalled

ComputeMetrics ==
    /\ metrics_input # <<>>
    /\ metrics = NotCalled
    /\ metrics' = compute_metrics(metrics_input.rows, METRICS_THRESHOLD,
                                  metrics_input.model_name)
    /\ UNCHANGED <<metrics_input, config>>
    /\ UNCHANGED <<splitVars, featureVars, consensusVars, reportVars, thresholdVars, trainVars, explainVars, cacheVars, runVars, argVars, targetVars, orchestratorVars, connectorVars, pipelineVars, scriptVars>>

NextMetrics == ComputeMetrics

SpecMetrics == InitMetrics /\ [][NextMetrics]_vars

----------------------------------------------------------------------------
(* Properties of the metrics *)

RowsWith(actual, predicted) ==
    {i \in DOMAIN metrics_input.rows :
        /\ metrics_input.rows[i].y_true = actual
        /\ metrics_input.rows[i].y_pred = predicted}

\* Every probability is 0 or 1 and equals the label and the prediction
PerfectlySeparated ==
    \A i \in DOMAIN metrics_input.rows :
        /\ metrics_input.rows[i].y_prob = 100 * metrics_input.rows[i].y_true
        /\ metrics_input.rows[i].y_pred = metrics_input.rows[i].y_true

IsOne(score) == score[1] = score[2]

\* C17 as stated: the four cells are the counts of the four (actual,
\* predicted) combinations and sum to the number of rows; a perfectly
\* separated input has accuracy 1, F1 1 and no false positive or negative.
C17_ConfusionCellsAndPerfectScores ==
    metrics # NotCalled =>
        /\ metrics.tp = Cardinality(RowsWith(1, 1))
        /\ metrics.fp = Cardinality(RowsWith(0, 1))
        /\ metrics.tn = Cardinality(RowsWith(0, 0))
        /\ metrics.fn = Cardinality(RowsWith(1, 0))
        /\ metrics.tp + metrics.fp + metrics.tn + metrics.fn = Len(metrics_input.rows)
        /\ PerfectlySeparated =>
              /\ IsOne(metrics.accuracy)
              /\ IsOne(metrics.f1)
              /\ metrics.fp = 0
              /\ metrics.fn = 0

----------------------------------------------------------------------------
(* Orchestration: PipelineOrchestrator.run of
   src/orchestration/pipeline_orchestrator.py.  The body of run holds the
   pipeline twice (lines 72-385 and 401-699); the finally block of the second
   copy goes on with a metrics and an output step (701-784), and the method
   ends with a SHAP and an output step of its own (786-842). *)

Unbound == -1

NoneValue == 0

NoData == -1

Event(op, data) == [op |-> op, data |-> data]

\* The locals of run at the start of a call
FreshLocals ==
    [raw_data |-> Unbound, data_splits |-> Unbound, features |-> Unbound,
     logistic_model |-> Unbound, xgb_model |-> Unbound, preds |-> Unbound]

\* Answers typed at the prompts
StoreAnswers == {"yes", "no"}

RunNames == {"", "run1"}

RunFrame ==
    /\ UNCHANGED config
    /\ UNCHANGED <<splitVars, featureVars, consensusVars, reportVars, thresholdVars, trainVars, explainVars, cacheVars, metricVars, argVars, targetVars, orchestratorVars, connectorVars, pipelineVars, scriptVars>>

\* except Exception: "Pipeline failed" is logged and the finally block follows
pipeline_failed(trace) == Append(trace, Event("pipeline_failed", NoData))

\* What earlier processes left in logs/pipeline.log
EarlierPipelineLogs ==
    UNION { [1..n -> {"Pipeline orchestration complete."}] : n \in 0..MaxEarlierRecords }

InitRun ==
    /\ ScriptIdle
    /\ PipelineIdle
    /\ ConnectorIdle
    /\ instances = 0
    /\ earlier_log_lines \in EarlierPipelineLogs
    /\ TargetsIdle
    /\ ArgsIdle
    /\ SplitIdle
    /\ FeaturesIdle
    /\ ConsensusIdle
    /\ ReportIdle
    /\ ThresholdIdle
    /\ TrainIdle
    /\ ExplainIdle
    /\ CacheIdle
    /\ MetricsIdle
    /\ config = <<>>
    /\ RunIdle

\* Lines 19-47, __init__: the file handler of logs/pipeline.log is opened
\* with mode "w" unless the environment sets CLEAR_LOG_ON_START to something
\* other than "true"; mode "w" empties the file.
OrchestratorInit ==
    /\ run_pc = "idle"
    /\ instances < MaxRunCalls
    /\ instances' = instances + 1
    /\ \E clear_log \in BOOLEAN :
          earlier_log_lines' = IF clear_log THEN <<>> ELSE earlier_log_lines
    /\ UNCHANGED runVars
    /\ UNCHANGED config
    /\ UNCHANGED <<argVars, targetVars, splitVars, featureVars, consensusVars, reportVars, thresholdVars, trainVars, explainVars, cacheVars, metricVars, connectorVars, pipelineVars, scriptVars>>

\* A guard that tests the class attribute and never sets it
run_guard_never_set(_has_run) == [proceeds |-> ~_has_run, _has_run |-> _has_run]

\* Lines 52-56: the test of the class attribute _has_run and its assignment
\* before anything else of the call
run_guard(_has_run) == [proceeds |-> ~_has_run, _has_run |-> TRUE]

\* Lines 52-56: a call of run on any instance; the guard is a class attribute
RunGuard ==
    /\ run_pc = "idle"
    /\ instances > 0
    /\ run_calls < MaxRunCalls
    /\ run_calls' = run_calls + 1
    /\ has_run' = run_guard(has_run)._has_run
    /\ IF ~run_guard(has_run).proceeds
       THEN /\ run_result' = "aborted"
            /\ UNCHANGED <<run_pc, run_pass, run_locals, run_name, run_trace>>
       ELSE /\ run_pc' = "store_prompt"
            /\ run_pass' = 1
            /\ run_locals' = FreshLocals
            /\ run_name' = ""
            /\ run_result' = "running"
            /\ run_trace' = <<>>
    /\ RunFrame

\* Lines 73-76 and 402-405: input() for permanent storage and the run name
RunStorePrompt ==
    /\ run_pc = "store_prompt"
    /\ \E store_outputs \in StoreAnswers, name \in RunNames :
          IF store_outputs = "yes"
          THEN /\ run_name' = name
               /\ run_trace' = run_trace \o <<Event("input", NoData), Event("input", NoData)>>
          ELSE /\ name = ""
               /\ run_name' = ""
               /\ run_trace' = Append(run_trace, Event("input", NoData))
    /\ run_pc' = "connect"
    /\ UNCHANGED <<has_run, run_calls, run_pass, run_locals, run_result>>
    /\ RunFrame

\* Lines 81-84 and 410-413: connect; a failed connection raises out of run
RunConnect ==
    /\ run_pc = "connect"
    /\ \E connected \in BOOLEAN :
          /\ run_trace' = Append(run_trace, Event("connect", NoData))
          /\ IF connected
             THEN /\ run_pc' = "fetch"
                  /\ UNCHANGED run_result
             ELSE /\ run_pc' = "idle"
                  /\ run_result' = "raised"
    /\ UNCHANGED <<has_run, run_calls, run_pass, run_locals, run_name>>
    /\ RunFrame

\* Lines 88-92 and 417-421: input() for the table name, query_to_dataframe,
\* RuntimeError when it returns None
RunFetch ==
    /\ run_pc = "fetch"
    /\ \E returned \in BOOLEAN :
          IF returned
          THEN /\ run_locals' = [run_locals EXCEPT !.raw_data = run_pass]
               /\ run_trace' = run_trace \o
                     <<Event("input", NoData), Event("query_to_dataframe", run_pass)>>
               /\ run_pc' = "split"
          ELSE /\ run_locals' = [run_locals EXCEPT !.raw_data = NoneValue]
               /\ run_trace' = pipeline_failed(run_trace \o
                     <<Event("input", NoData), Event("query_to_dataframe", run_pass)>>)
               /\ run_pc' = "finally"
    /\ UNCHANGED <<has_run, run_calls, run_pass, run_name, run_result>>
    /\ RunFrame

\* Lines 96-97 and 425-426: split_data, then select_features
RunSplit ==
    /\ run_pc = "split"
    /\ \E outcome \in {"done", "split_raises", "select_raises"} :
          LET begun == Append(run_trace, Event("split_data", run_locals.raw_data))
          IN CASE outcome = "done" ->
                    /\ run_locals' = [run_locals EXCEPT !.data_splits = run_locals.raw_data,
                                                        !.features = run_locals.raw_data]
                    /\ run_trace' = begun
                    /\ run_pc' = "train"
               [] outcome = "split_raises" ->
                    /\ run_locals' = run_locals
                    /\ run_trace' = pipeline_failed(begun)
                    /\ run_pc' = "finally"
               [] outcome = "select_raises" ->
                    /\ run_locals' = [run_locals EXCEPT !.data_splits = run_locals.raw_data]
                    /\ run_trace' = pipeline_failed(begun)
                    /\ run_pc' = "finally"
    /\ UNCHANGED <<has_run, run_calls, run_pass, run_name, run_result>>
    /\ RunFrame

\* Lines 99-125 and 428-454: the training frame, then train_logistic and
\* train_xgboost; both models are None before the first trainer is called
RunTrain ==
    /\ run_pc = "train"
    /\ \E outcome \in {"trained", "prepare_raises", "logistic_raises", "xgboost_raises"} :
          LET begun == Append(run_trace, Event("train", run_locals.data_splits))
          IN CASE outcome = "trained" ->
                    /\ run_locals' = [run_locals EXCEPT !.logistic_model = run_pass,
                                                        !.xgb_model = run_pass]
                    /\ run_trace' = begun
                    /\ run_pc' = "predict"
               [] outcome = "prepare_raises" ->
                    /\ run_locals' = run_locals
                    /\ run_trace' = pipeline_failed(run_trace)
                    /\ run_pc' = "finally"
               [] outcome = "logistic_raises" ->
                    /\ run_locals' = [run_locals EXCEPT !.logistic_model = NoneValue,
                                                        !.xgb_model = NoneValue]
                    /\ run_trace' = pipeline_failed(begun)
                    /\ run_pc' = "finally"
               [] outcome = "xgboost_raises" ->
                    /\ run_locals' = [run_locals EXCEPT !.logistic_model = run_pass,
                                                        !.xgb_model = NoneValue]
                    /\ run_trace' = pipeline_failed(begun)
                    /\ run_pc' = "finally"
    /\ UNCHANGED <<has_run, run_calls, run_pass, run_name, run_result>>
    /\ RunFrame

\* Lines 127-140 and 456-469: test probabilities; a failure is logged only
RunPredict ==
    /\ run_pc = "predict"
    /\ \E predicted \in BOOLEAN :
          run_locals' = [run_locals EXCEPT
                            !.preds = IF predicted THEN run_pass ELSE NoneValue]
    /\ run_trace' = Append(run_trace, Event("predict_proba", run_locals.data_splits))
    /\ run_pc' = "metrics"
    /\ UNCHANGED <<has_run, run_calls, run_pass, run_name, run_result>>
    /\ RunFrame

\* Lines 142-206 and 471-535: compute_metrics per split, then write_metrics
RunMetrics ==
    /\ run_pc = "metrics"
    /\ \E raises \in BOOLEAN :
          LET begun == Append(run_trace, Event("compute_metrics", run_locals.data_splits))
          IN IF raises
             THEN /\ run_trace' = pipeline_failed(begun)
                  /\ run_pc' = "finally"
             ELSE /\ run_trace' = Append(begun, Event("write_metrics", run_locals.data_splits))
                  /\ run_pc' = "pr_curve"
    /\ UNCHANGED <<has_run, run_calls, run_pass, run_locals, run_name, run_result>>
    /\ RunFrame

\* Lines 208-255 and 537-574: the precision-recall curve and the max-F1
\* threshold of each model that has test probabilities
RunPrecisionRecall ==
    /\ run_pc = "pr_curve"
    /\ IF run_locals.preds = NoneValue
       THEN /\ run_trace' = run_trace
            /\ run_pc' = "shap_plot"
       ELSE \E raises \in BOOLEAN :
               LET begun == Append(run_trace,
                                   Event("precision_recall_curve", run_locals.data_splits))
               IN IF raises
                  THEN /\ run_trace' = pipeline_failed(begun)
                       /\ run_pc' = "finally"
                  ELSE /\ run_trace' = begun
                       /\ run_pc' = "shap_plot"
    /\ UNCHANGED <<has_run, run_calls, run_pass, run_locals, run_name, run_result>>
    /\ RunFrame

\* Lines 257-271 and 576-590: the SHAP summary plot; a failure is logged only
RunShapPlot ==
    /\ run_pc = "shap_plot"
    /\ run_trace' = Append(run_trace, Event("shap_summary_plot", run_locals.data_splits))
    /\ run_pc' = "output"
    /\ UNCHANGED <<has_run, run_calls, run_pass, run_locals, run_name, run_result>>
    /\ RunFrame

\* Lines 276-357 and 595-676: write_confusion_matrix, the local factors of
\* every split, write_full_consolidated_individuals; a failure is logged only
RunOutputWriting ==
    /\ run_pc = "output"
    /\ \E matrix_raises \in BOOLEAN :
          LET begun == Append(run_trace,
                              Event("write_confusion_matrix", run_locals.data_splits))
          IN IF matrix_raises
             THEN run_trace' = begun
             ELSE run_trace' = begun \o
                     <<Event("extract_local_factors", run_locals.data_splits),
                       Event("write_full_consolidated_individuals", run_locals.data_splits)>>
    /\ run_pc' = "copy"
    /\ UNCHANGED <<has_run, run_calls, run_pass, run_locals, run_name, run_result>>
    /\ RunFrame

\* Lines 359-380 and 678-694: "Pipeline orchestration complete.", then the
\* outputs are copied to the run folder when a run name was given
RunCopyOutputs ==
    /\ run_pc = "copy"
    /\ run_trace' = IF run_name # ""
                    THEN run_trace \o <<Event("complete", NoData), Event("copy", NoData)>>
                    ELSE Append(run_trace, Event("complete", NoData))
    /\ run_pc' = "finally"
    /\ UNCHANGED <<has_run, run_calls, run_pass, run_locals, run_name, run_result>>
    /\ RunFrame

\* Lines 383-385 and 697-699: the connection is closed; after the first copy
\* of the body the second begins (line 401), after the second the finally
\* block goes on (line 701)
RunFinallyClose ==
    /\ run_pc = "finally"
    /\ run_trace' = Append(run_trace, Event("close", NoData))
    /\ IF run_pass = 1
       THEN /\ run_pass' = 2
            /\ run_pc' = "store_prompt"
       ELSE /\ run_pass' = run_pass
            /\ run_pc' = "finally_metrics"
    /\ UNCHANGED <<has_run, run_calls, run_locals, run_name, run_result>>
    /\ RunFrame

\* Lines 701-765, inside the finally block: the metrics of every split again;
\* an unbound local or a failing metric raises out of run
RunFinallyMetrics ==
    /\ run_pc = "finally_metrics"
    /\ IF \/ run_locals.data_splits = Unbound
          \/ run_locals.features = Unbound
          \/ run_locals.logistic_model = Unbound
       THEN /\ run_trace' = run_trace
            /\ run_pc' = "idle"
            /\ run_result' = "raised"
       ELSE \E raises \in BOOLEAN :
               LET begun == Append(run_trace,
                                   Event("compute_metrics", run_locals.data_splits))
               IN IF raises
                  THEN /\ run_trace' = begun
                       /\ run_pc' = "idle"
                       /\ run_result' = "raised"
                  ELSE /\ run_trace' = Append(begun,
                                Event("write_metrics", run_locals.data_splits))
                       /\ run_pc' = "finally_output"
                       /\ run_result' = run_result
    /\ UNCHANGED <<has_run, run_calls, run_pass, run_locals, run_name>>
    /\ RunFrame

\* Lines 770-783, inside the finally block: write_confusion_matrix, then
\* write_consolidated_individuals is handed shap_logistic, a local that is not
\* bound before line 788: the name error is logged as a failed output step
RunFinallyOutput ==
    /\ run_pc = "finally_output"
    /\ run_trace' = Append(run_trace,
                           Event("write_confusion_matrix", run_locals.data_splits))
    /\ run_pc' = "tail_shap"
    /\ UNCHANGED <<has_run, run_calls, run_pass, run_locals, run_name, run_result>>
    /\ RunFrame

\* Lines 786-802: get_shap_explainer and extract_local_factors on the test
\* split for each model that has probabilities; a failure is logged only
RunTailShap ==
    /\ run_pc = "tail_shap"
    /\ run_trace' =
          IF /\ run_locals.logistic_model \notin {Unbound, NoneValue}
             /\ run_locals.preds \notin {Unbound, NoneValue}
          THEN Append(run_trace, Event("extract_local_factors", run_locals.data_splits))
          ELSE run_trace
    /\ run_pc' = "tail_output"
    /\ UNCHANGED <<has_run, run_calls, run_pass, run_locals, run_name, run_result>>
    /\ RunFrame

\* Lines 804-842: write_confusion_matrix and write_consolidated_individuals
\* for the test split, the closing log lines, and run returns
RunTailOutput ==
    /\ run_pc = "tail_output"
    /\ \E matrix_raises \in BOOLEAN :
          LET begun == Append(run_trace,
                              Event("write_confusion_matrix", run_locals.data_splits))
          IN IF matrix_raises \/ run_locals.preds = Unbound
             THEN run_trace' = Append(begun, Event("complete", NoData))
             ELSE run_trace' = begun \o
                     <<Event("write_consolidated_individuals", run_locals.data_splits),
                       Event("complete", NoData)>>
    /\ run_pc' = "idle"
    /\ run_result' = "returned"
    /\ UNCHANGED <<has_run, run_calls, run_pass, run_locals, run_name>>
    /\ RunFrame

NextRun ==
    \/ OrchestratorInit
    \/ RunGuard
    \/ RunStorePrompt
    \/ RunConnect
    \/ RunFetch
    \/ RunSplit
    \/ RunTrain
    \/ RunPredict
    \/ RunMetrics
    \/ RunPrecisionRecall
    \/ RunShapPlot
    \/ RunOutputWriting
    \/ RunCopyOutputs
    \/ RunFinallyClose
    \/ RunFinallyMetrics
    \/ RunFinallyOutput
    \/ RunTailShap
    \/ RunTailOutput

SpecRun == InitRun /\ [][NextRun]_vars

----------------------------------------------------------------------------
(* Properties of the orchestration *)

\* The stage an operation of run belongs to, 0 for an operation of no stage.
\* run has no consensus classification step: no operation has rank 5.
StageRank(op) ==
    CASE op = "split_data" -> 1
      [] op = "train" -> 2
      [] op = "precision_recall_curve" -> 3
      [] op \in {"shap_summary_plot", "extract_local_factors"} -> 4
      [] op \in {"write_full_consolidated_individuals",
                 "write_consolidated_individuals"} -> 6
      [] OTHER -> 0

IsStage(event) == StageRank(event.op) > 0

StagesBegun == SelectSeq(run_trace, IsStage)

\* Operations that neither compute nor write a result of the pipeline
Housekeeping == {"complete", "copy", "close", "pipeline_failed", "input", "connect"}

\* C18 as stated: within one call of run the stages begin in the order
\* split, train, threshold, explain, classify, report, no stage operation is
\* begun a second time, and after the report only housekeeping follows.
C18_StagesOnceInOrder ==
    /\ \A i, j \in DOMAIN StagesBegun :
          i < j => /\ StageRank(StagesBegun[i].op) <= StageRank(StagesBegun[j].op)
                   /\ StagesBegun[i].op # StagesBegun[j].op
    /\ \A i, j \in DOMAIN run_trace :
          (i < j /\ StageRank(run_trace[i].op) = 6)
             => run_trace[j].op \in Housekeeping

Fetches == SelectSeq(run_trace, LAMBDA event : event.op = "query_to_dataframe")

ReadsData(event) == event.data # NoData /\ event.op # "query_to_dataframe"

\* C19 as stated: one call of run fetches the dataset at most once, exactly
\* once when it ends by returning, and every operation that reads data reads
\* the data of that one fetch.
C19_DatasetFetchedOnce ==
    /\ Len(Fetches) <= 1
    /\ run_result = "returned" => Len(Fetches) = 1
    /\ \A i \in DOMAIN run_trace :
          ReadsData(run_trace[i]) =>
             /\ Len(Fetches) >= 1
             /\ run_trace[i].data = Fetches[1].data

\* C20 as stated: between the first data fetch of a call of run and its last
\* report nothing is read from the terminal.
C20_NoInputBetweenFetchAndReport ==
    \A i, j, k \in DOMAIN run_trace :
        (/\ i < j
         /\ j < k
         /\ run_trace[i].op = "query_to_dataframe"
         /\ StageRank(run_trace[k].op) = 6)
           => run_trace[j].op # "input"

----------------------------------------------------------------------------
(* The entry point: main of src/updated_seperate_regression_models.py calls
   PipelineOrchestrator.run once and has no exception handler and no
   sys.exit: the process ends with status 1 when run raises, else with 0. *)

exit_code == IF run_result = "raised" THEN 1 ELSE 0

\* The call of run made by main is over
MainEnded == run_calls = 1 /\ run_pc = "idle" /\ run_result \in {"returned", "raised"}

\* The connection failed, the fetch returned nothing or a stage raised
PipelineFailed ==
    \/ run_result = "raised"
    \/ \E i \in DOMAIN run_trace : run_trace[i].op = "pipeline_failed"

\* C21 as stated: the entry point ends with exit code 0 when the pipeline
\* completed and with a non-zero exit code when the connection, the fetch or
\* the training failed.
C21_ExitCodeReflectsFailure ==
    MainEnded => (exit_code # 0 <=> PipelineFailed)

\* C29: the first call of run sets the guard as it starts and the guard stays
\* set; every later call, on any instance, ends at the guard: it returns
\* without a prompt, a connection, a fetch, a training or a write, whatever
\* the outcome of the first call was.
C29_OnlyFirstRunProceeds ==
    [][ /\ (run_calls = 0 /\ run_calls' = 1) => (has_run' /\ run_pc' = "store_prompt")
        /\ has_run => has_run'
        /\ (run_calls >= 1 /\ run_calls' = run_calls + 1)
              => /\ run_result' = "aborted"
                 /\ run_pc' = "idle"
                 /\ run_trace' = run_trace
                 /\ run_locals' = run_locals
        /\ run_trace' # run_trace => run_calls' = 1 ]_vars

\* A second call was turned away after a first call whose pipeline failed
C29_Witness ==
    /\ run_calls = 2
    /\ run_result = "aborted"
    /\ \E i \in DOMAIN run_trace : run_trace[i].op = "pipeline_failed"

----------------------------------------------------------------------------
(* Command line: parse_args of src/updated_seperate_regression_models.py and
   the cfg.get calls of the stages.  EPSILON is in units of 1e-6. *)

SEED == 42

TOP_N == 25

EXPLAIN_TRAIN_SAMPLE_SIZE == 500

SAMPLE_CAP_FALLBACK == 1000

\* DEFAULT_CONFIG['DATE_START'] and ['DATE_END'], as yyyymm
DATE_START == 202407

DATE_END == 202412

\* The dest names argparse derives from the flags
Flags == {"seed", "topn", "epsilon", "explain_train_sample_size", "model", "include_splits"}

\* src.config.DEFAULT_CONFIG, the options the flags stand for
DefaultConfig ==
    [SEED |-> SEED, EPSILON |-> EPSILON, TOP_N |-> TOP_N,
     EXPLAIN_TRAIN_SAMPLE_SIZE |-> EXPLAIN_TRAIN_SAMPLE_SIZE,
     MODEL |-> "both", INCLUDE_SPLITS |-> "train_val_test"]

FlagValues ==
    [seed : {SEED, 7}, topn : {TOP_N, 3}, epsilon : {EPSILON, 5},
     explain_train_sample_size : {EXPLAIN_TRAIN_SAMPLE_SIZE, 100},
     model : {"both", "logistic"}, include_splits : {"train_val_test", "test"}]

CommandLines == [given : SUBSET Flags, value : FlagValues]

\* The default= of each add_argument call
flag_default(flag) ==
    CASE flag = "seed" -> DefaultConfig.SEED
      [] flag = "topn" -> DefaultConfig.TOP_N
      [] flag = "epsilon" -> DefaultConfig.EPSILON
      [] flag = "explain_train_sample_size" -> DefaultConfig.EXPLAIN_TRAIN_SAMPLE_SIZE
      [] flag = "model" -> DefaultConfig.MODEL
      [] flag = "include_splits" -> DefaultConfig.INCLUDE_SPLITS

\* vars(parser.parse_args()): one entry per dest name
namespace(cmd) ==
    [flag \in Flags |-> IF flag \in cmd.given THEN cmd.value[flag] ELSE flag_default(flag)]

\* dict.update
update(d, other) ==
    [k \in DOMAIN d \cup DOMAIN other |-> IF k \in DOMAIN other THEN other[k] ELSE d[k]]

\* parse_args(): cfg = DEFAULT_CONFIG.copy(); cfg.update(vars(args))
parse_args(cmd) == update(DefaultConfig, namespace(cmd))

\* dict.get
cfg_get(cfg, key, default) == IF key \in DOMAIN cfg THEN cfg[key] ELSE default

\* config.get('SEED', 42) of split_data and of get_shap_explainer,
\* cfg.get('TOP_N', 25) and cfg.get('EPSILON', 1e-6) of extract_local_factors,
\* cfg.get('EXPLAIN_TRAIN_SAMPLE_SIZE', 1000) of get_shap_explainer; no stage
\* reads MODEL or INCLUDE_SPLITS
options_read(cfg) ==
    [SEED |-> cfg_get(cfg, "SEED", SEED),
     TOP_N |-> cfg_get(cfg, "TOP_N", TOP_N),
     EPSILON |-> cfg_get(cfg, "EPSILON", EPSILON),
     EXPLAIN_TRAIN_SAMPLE_SIZE |-> cfg_get(cfg, "EXPLAIN_TRAIN_SAMPLE_SIZE", SAMPLE_CAP_FALLBACK)]

InitArgs ==
    /\ ScriptIdle
    /\ PipelineIdle
    /\ ConnectorIdle
    /\ OrchestratorIdle
    /\ TargetsIdle
    /\ SplitIdle
    /\ FeaturesIdle
    /\ ConsensusIdle
    /\ ReportIdle
    /\ ThresholdIdle
    /\ TrainIdle
    /\ ExplainIdle
    /\ CacheIdle
    /\ MetricsIdle
    /\ RunIdle
    /\ config = <<>>
    /\ argv \in CommandLines
    /\ cli_cfg = <<>>
    /\ stage_reads = <<>>

ParseArgs ==
    /\ cli_cfg = <<>>
    /\ cli_cfg' = parse_args(argv)
    /\ UNCHANGED <<argv, stage_reads, config>>
    /\ UNCHANGED <<splitVars, featureVars, consensusVars, reportVars, thresholdVars, trainVars, explainVars, cacheVars, metricVars, runVars, targetVars, orchestratorVars, connectorVars, pipelineVars, scriptVars>>

StagesReadOptions ==
    /\ cli_cfg # <<>>
    /\ stage_reads = <<>>
    /\ stage_reads' = options_read(cli_cfg)
    /\ UNCHANGED <<argv, cli_cfg, config>>
    /\ UNCHANGED <<splitVars, featureVars, consensusVars, reportVars, thresholdVars, trainVars, explainVars, cacheVars, metricVars, runVars, targetVars, orchestratorVars, connectorVars, pipelineVars, scriptVars>>

NextArgs == ParseArgs \/ StagesReadOptions

SpecArgs == InitArgs /\ [][NextArgs]_vars

----------------------------------------------------------------------------
(* Properties of the command line *)

\* The flag of each option a stage reads
FlagOf(option) ==
    CASE option = "SEED" -> "seed"
      [] option = "TOP_N" -> "topn"
      [] option = "EPSILON" -> "epsilon"
      [] option = "EXPLAIN_TRAIN_SAMPLE_SIZE" -> "explain_train_sample_size"

\* C22 as stated: the value a stage reads for an option is the value given
\* with the option's flag, and the DEFAULT_CONFIG value when the flag is absent.
C22_FlagsReachStages ==
    stage_reads # <<>> =>
        \A option \in DOMAIN stage_reads :
            stage_reads[option] =
                IF FlagOf(option) \in argv.given
                THEN argv.value[FlagOf(option)]
                ELSE DefaultConfig[option]

----------------------------------------------------------------------------
(* Multi-target run: main of src/RiskGrouper.py from the point where the
   analysis type has been chosen, one step per target variable. *)

TargetRow(split, target) == [dataset_split |-> split, target |-> target]

\* What the query can return for a target: nothing, a frame whose validation
\* rows all miss the target, frames whose training target has one class
\* (outright, or once the rows without a target are dropped), and frames with
\* both classes on both sides.
TargetFrames ==
    { <<>>,
      <<TargetRow("TRAIN", 0), TargetRow("TRAIN", 1), TargetRow("TEST", NullCell)>>,
      <<TargetRow("TRAIN", 1), TargetRow("TRAIN", 1), TargetRow("TEST", 0),
        TargetRow("TEST", 1)>>,
      <<TargetRow("TRAIN", 0), TargetRow("TRAIN", NullCell), TargetRow("TEST", 0),
        TargetRow("TEST", 1)>>,
      <<TargetRow("TRAIN", 0), TargetRow("TRAIN", 1), TargetRow("TEST", 0),
        TargetRow("TEST", 1)>>,
      <<TargetRow("TRAIN", 0), TargetRow("TRAIN", 1), TargetRow("TRAIN", 1),
        TargetRow("TEST", 1), TargetRow("TEST", 0), TargetRow("TEST", NullCell)>> }

\* df[df['dataset_split'] == split].dropna(subset=[target])[target]
target_of(df, split) ==
    LET kept == SelectSeq(df, LAMBDA r : r.dataset_split = split /\ r.target # NullCell)
    IN [i \in DOMAIN kept |-> kept[i].target]

\* roc_auc_score on the validation labels: with one class the installed
\* scikit-learn decides, older versions raising, newer ones warning.
roc_auc_outcomes(y_val) ==
    IF Cardinality(classes(y_val)) < 2 THEN {"raises", "returned"} ELSE {"returned"}

\* The ways one call of prepare_and_run_models(df, ..., target, ...) can end,
\* each with the rows of the predictions file it wrote and what it logged
prepare_and_run_models_outcomes(df) ==
    LET train_target == target_of(df, "TRAIN")
        val_target == target_of(df, "TEST")
    IN IF Len(df) = 0
       THEN {[status |-> "returned", rows |-> 0, warning |-> "No data to analyze"]}
       ELSE IF Len(val_target) = 0
       THEN {[status |-> "returned", rows |-> 0, warning |-> "Validation set is empty"]}
       ELSE { [status |-> IF /\ prepare_and_run_models(train_target, fit).status = "returned"
                             /\ auc = "returned"
                          THEN "returned" ELSE "raises",
               rows |-> IF /\ prepare_and_run_models(train_target, fit).status = "returned"
                           /\ auc = "returned"
                        THEN Len(val_target) ELSE 0,
               warning |-> ""] :
                fit \in search_fit_outcomes(train_target, RISKGROUPER_CV),
                auc \in roc_auc_outcomes(val_target) }

SummaryRecord(run, target, status) == [run |-> run, target |-> target, status |-> status]

\* Records a run of an earlier process left in the summary file
EarlierLogs ==
    UNION { [1..n -> {SummaryRecord("earlier", 1, "COMPLETED")}] : n \in 0..MaxEarlierRecords }

InitTargets ==
    /\ ScriptIdle
    /\ PipelineIdle
    /\ ConnectorIdle
    /\ OrchestratorIdle
    /\ ArgsIdle
    /\ SplitIdle
    /\ FeaturesIdle
    /\ ConsensusIdle
    /\ ReportIdle
    /\ ThresholdIdle
    /\ TrainIdle
    /\ ExplainIdle
    /\ CacheIdle
    /\ MetricsIdle
    /\ RunIdle
    /\ config = <<>>
    /\ target_frames \in [1..MaxTargets -> TargetFrames]
    /\ target_index = 0
    /\ main_state = "looping"
    /\ run_summary_log \in EarlierLogs
    /\ prediction_rows = [t \in 1..MaxTargets |-> 0]
    /\ logged = <<>>

TargetsFrame ==
    /\ UNCHANGED config
    /\ UNCHANGED <<argVars, splitVars, featureVars, consensusVars, reportVars, thresholdVars, trainVars, explainVars, cacheVars, metricVars, runVars, orchestratorVars, connectorVars, pipelineVars, scriptVars>>

\* What `with SnowflakeConnector() as sf`, `if sf.connection` and
\* `sf.streaming(query)` can do (lines 353-358).  RiskGrouper imports the
\* connector by its bare module name.  The class of src/snowflake_connector.py
\* has no method streaming: with it a live connection makes the call raise
\* AttributeError.  A connector module that provides streaming hands over the
\* chunks of the query.
FetchOutcomes == {"no_connection", "no_streaming_method", "streamed"}

\* Lines 340-400: one pass of `for target in target_vars`.  An exception
\* leaves the loop for the handler of lines 403-411, which appends the base
\* summary, a record without a target.
ProcessTarget ==
    /\ main_state = "looping"
    /\ target_index < MaxTargets
    /\ \E fetch \in FetchOutcomes :
       LET target == target_index + 1
           df == IF fetch = "streamed" THEN target_frames[target] ELSE <<>>
           failed ==
              /\ logged' = Append(logged, [target |-> 0, level |-> "error",
                                           message |-> "An unhandled exception occurred in main loop"])
              /\ run_summary_log' = Append(run_summary_log,
                                           SummaryRecord("this", 0, "FAILED"))
              /\ main_state' = "failed"
              /\ UNCHANGED prediction_rows
       IN /\ target_index' = target
          /\ IF fetch = "no_streaming_method"
             THEN failed
             ELSE IF Len(df) = 0
             THEN /\ logged' = Append(logged, [target |-> target, level |-> "error",
                                               message |-> "No data returned"])
                  /\ run_summary_log' = Append(run_summary_log,
                                               SummaryRecord("this", target, "FAILED - NO DATA"))
                  /\ UNCHANGED <<prediction_rows, main_state>>
             ELSE \E outcome \in prepare_and_run_models_outcomes(df) :
                     IF outcome.status = "returned"
                     THEN /\ logged' = IF outcome.warning = "" THEN logged
                                       ELSE Append(logged, [target |-> target,
                                                            level |-> "warning",
                                                            message |-> outcome.warning])
                          /\ prediction_rows' = [prediction_rows EXCEPT ![target] = outcome.rows]
                          /\ run_summary_log' = Append(run_summary_log,
                                                       SummaryRecord("this", target, "COMPLETED"))
                          /\ UNCHANGED main_state
                     ELSE failed
    /\ UNCHANGED target_frames
    /\ TargetsFrame

\* Lines 412-413: the loop is exhausted and the finally clause logs the end
EndOfTargets ==
    /\ main_state = "looping"
    /\ target_index = MaxTargets
    /\ main_state' = "ended"
    /\ UNCHANGED <<target_frames, target_index, run_summary_log, prediction_rows, logged>>
    /\ TargetsFrame

NextTargets == ProcessTarget \/ EndOfTargets

SpecTargets == InitTargets /\ [][NextTargets]_vars

----------------------------------------------------------------------------
(* Properties of the multi-target run *)

MainOver == main_state \in {"failed", "ended"}

\* The training target of a frame has one class once its nulls are dropped
SingleClassTarget(df) ==
    Len(df) > 0 /\ Cardinality(classes(target_of(df, "TRAIN"))) = 1

\* The target cannot be modelled: no data, no validation rows, or one class
Unusable(df) ==
    \/ Len(df) = 0
    \/ Len(target_of(df, "TEST")) = 0
    \/ SingleClassTarget(df)

\* C23 as stated: once main is over, every target was processed; a target
\* that cannot be modelled has no output rows and a logged reason of its own,
\* and no exception ended the run.
C23_BadTargetSkippedOthersProcessed ==
    (MainOver /\ \E t \in 1..MaxTargets : Unusable(target_frames[t])) =>
        /\ main_state = "ended"
        /\ target_index = MaxTargets
        /\ \A t \in 1..MaxTargets :
              Unusable(target_frames[t]) =>
                 /\ prediction_rows[t] = 0
                 /\ \E i \in DOMAIN logged : logged[i].target = t

----------------------------------------------------------------------------
(* Properties of the durable logs *)

\* C24 as stated, for the orchestrator: from the construction of the
\* orchestrator to the end of run, no step removes or rewrites what earlier
\* runs appended to the durable log.
C24_EarlierLogRecordsKept ==
    [][earlier_log_lines' = earlier_log_lines]_vars

----------------------------------------------------------------------------
(* Properties of the report's recency filter *)

InWindow(month) == DATE_START <= month /\ month <= DATE_END

ScoredInputRows ==
    UNION { {[split |-> name, row |-> data_splits[name][i]] : i \in DOMAIN data_splits[name]} :
              name \in Range(SplitNames) }

\* C25 as stated: every row of the report has its period start inside
\* [DATE_START, DATE_END], and every scored input row of a period inside the
\* window is in the report.
C25_ReportWithinConfiguredWindow ==
    (data_splits # <<>> /\ Len(report) > 0) =>
        /\ \A i \in DOMAIN report : InWindow(report[i].effective_month_start)
        /\ \A r \in ScoredInputRows :
              InWindow(r.row.EFFECTIVE_MONTH_START) =>
                 \E i \in DOMAIN report :
                    /\ report[i].fh_id = r.row.FH_ID
                    /\ report[i].split = r.split
                    /\ report[i].effective_month_start = r.row.EFFECTIVE_MONTH_START

----------------------------------------------------------------------------
(* Properties of the selector's type filter *)

ColumnIndex(name) == CHOOSE i \in DOMAIN raw_columns : raw_columns[i].name = name

\* The column is the target or an exclusion entry, names compared trimmed and
\* case-insensitively
SetAside(name) ==
    \/ SameName(name, config.TARGET)
    \/ \E e \in config.EXCLUDE_FEATURES : SameName(name, e)

\* C26: the features are numeric columns of the dataset in the dataset's
\* column order; every non-numeric column that is neither the target nor an
\* exclusion entry is in the skipped list and in the logged warnings; no
\* column is both a feature and skipped.
C26_FeaturesNumericOthersSkipped ==
    selection.status = "ok" =>
        /\ \A i \in DOMAIN selection.features :
              \E k \in DOMAIN raw_columns :
                 raw_columns[k].name = selection.features[i] /\ raw_columns[k].numeric
        /\ \A i, j \in DOMAIN selection.features :
              i < j => ColumnIndex(selection.features[i]) < ColumnIndex(selection.features[j])
        /\ \A k \in DOMAIN raw_columns :
              (~raw_columns[k].numeric /\ ~SetAside(raw_columns[k].name)) =>
                 /\ raw_columns[k].name \in Range(selection.skipped)
                 /\ raw_columns[k].name \in Range(selection.warnings)
        /\ Range(selection.features) \cap Range(selection.skipped) = {}

\* A selection over a numeric and a non-numeric column, neither set aside:
\* one became a feature, the other was skipped.
C26_Witness ==
    /\ selection.status = "ok"
    /\ selection.features # <<>>
    /\ selection.skipped # <<>>
    /\ \E k \in DOMAIN raw_columns :
          ~raw_columns[k].numeric /\ ~SetAside(raw_columns[k].name)

----------------------------------------------------------------------------
(* Connector: class SnowflakeConnector of src/snowflake_connector.py.  The
   class is a singleton (__new__): every SnowflakeConnector() is the one
   instance.  A connection is "None", "open", or "dropped" when the object
   is still held but is_closed() answers true. *)

\* __new__ on first use
NewConnector == [connection |-> "None", cursor |-> "None"]

\* connect(): an open connection is reused, else one is opened; a failure
\* leaves connection and cursor None.  Returns <<connector, result>>.
connect(conn, reachable) ==
    IF conn.connection = "open" THEN <<conn, TRUE>>
    ELSE IF reachable THEN <<[connection |-> "open", cursor |-> "open"], TRUE>>
    ELSE <<[connection |-> "None", cursor |-> "None"], FALSE>>

\* close(): cursor and connection are closed and set to None
close(conn) == [connection |-> "None", cursor |-> "None"]

\* __enter__(): self.connect(), whatever it returns
enter(conn, reachable) == connect(conn, reachable)[1]

\* __exit__(exc_type, exc_val, exc_tb): the call of close() is commented
\* out; the connection is kept alive
exit(conn) == conn

InitConnector ==
    /\ ScriptIdle
    /\ PipelineIdle
    /\ ArgsIdle
    /\ TargetsIdle
    /\ OrchestratorIdle
    /\ SplitIdle
    /\ FeaturesIdle
    /\ ConsensusIdle
    /\ ReportIdle
    /\ ThresholdIdle
    /\ TrainIdle
    /\ ExplainIdle
    /\ CacheIdle
    /\ MetricsIdle
    /\ RunIdle
    /\ config = <<>>
    /\ sf = NewConnector
    /\ block = "outside"
    /\ left_by = "none"
    /\ blocks_entered = 0
    /\ queries = 0

ConnectorFrame ==
    /\ UNCHANGED config
    /\ UNCHANGED <<argVars, targetVars, orchestratorVars, splitVars, featureVars, consensusVars, reportVars, thresholdVars, trainVars, explainVars, cacheVars, metricVars, runVars, pipelineVars, scriptVars>>

\* with SnowflakeConnector() as sf: __new__ hands out the instance, __enter__
\* connects
EnterBlock ==
    /\ block = "outside"
    /\ blocks_entered < MaxWithBlocks
    /\ \E reachable \in BOOLEAN : sf' = enter(sf, reachable)
    /\ block' = "inside"
    /\ blocks_entered' = blocks_entered + 1
    /\ queries' = 0
    /\ UNCHANGED left_by
    /\ ConnectorFrame

\* execute_query or query_to_dataframe inside the block: connect() first, an
\* error of the query is printed and None returned
QueryInBlock ==
    /\ block = "inside"
    /\ queries < MaxQueries
    /\ \E reachable \in BOOLEAN : sf' = connect(sf, reachable)[1]
    /\ queries' = queries + 1
    /\ UNCHANGED <<block, left_by, blocks_entered>>
    /\ ConnectorFrame

\* The server or the network ends the session inside the block
ConnectionDrops ==
    /\ block = "inside"
    /\ sf.connection = "open"
    /\ sf' = [sf EXCEPT !.connection = "dropped"]
    /\ UNCHANGED <<block, left_by, blocks_entered, queries>>
    /\ ConnectorFrame

\* The end of the block is reached: __exit__(None, None, None)
LeaveNormally ==
    /\ block = "inside"
    /\ sf' = exit(sf)
    /\ block' = "outside"
    /\ left_by' = "normal"
    /\ UNCHANGED <<blocks_entered, queries>>
    /\ ConnectorFrame

\* A statement of the block raises: __exit__(exc_type, exc_val, exc_tb), which
\* returns None, so the exception goes on
LeaveByException ==
    /\ block = "inside"
    /\ sf' = exit(sf)
    /\ block' = "outside"
    /\ left_by' = "exception"
    /\ UNCHANGED <<blocks_entered, queries>>
    /\ ConnectorFrame

\* An explicit close() after a block
CloseConnector ==
    /\ block = "outside"
    /\ left_by # "none"
    /\ sf.connection # "None"
    /\ sf' = close(sf)
    /\ UNCHANGED <<block, left_by, blocks_entered, queries>>
    /\ ConnectorFrame

NextConnector ==
    \/ EnterBlock
    \/ QueryInBlock
    \/ ConnectionDrops
    \/ LeaveNormally
    \/ LeaveByException
    \/ CloseConnector

SpecConnector == InitConnector /\ [][NextConnector]_vars

----------------------------------------------------------------------------
(* Properties of the connector *)

\* C27 as stated: when a with block is left, normally or through an
\* exception, no connection remains open.
C27_ConnectionClosedOnExit ==
    [][(block = "inside" /\ block' = "outside") => sf'.connection # "open"]_vars


\* ---------------------------------------------------------------------------
\* SpecPipeline: v1/scripts/utils/run_sql_pipeline.py, main
\* ---------------------------------------------------------------------------

\* the execution order of the SQL scripts
SQL_SCRIPT_ORDER ==
    <<"Prompts.sql", "baselines.sql", "Notes_agentic.sql", "events.sql",
      "daily_aggegation.sql", "data_prep.sql", "data_split.sql">>

ScriptNames == {SQL_SCRIPT_ORDER[i] : i \in DOMAIN SQL_SCRIPT_ORDER}

\* place of a script in SQL_SCRIPT_ORDER
script_place(name) == CHOOSE i \in DOMAIN SQL_SCRIPT_ORDER : SQL_SCRIPT_ORDER[i] = name

\* get_user_selection: the slice from the selected number on; the empty list
\* when the user cancels (start_num = 0 stands for Ctrl-C / end of input);
\* numbers out of range and non-numbers are asked again
get_user_selection(sql_scripts, start_num) ==
    IF start_num = 0 THEN <<>>
    ELSE SubSeq(sql_scripts, start_num, Len(sql_scripts))

PipelineFrame ==
    /\ UNCHANGED config
    /\ UNCHANGED <<argVars, targetVars, orchestratorVars, connectorVars, splitVars, featureVars, consensusVars, reportVars, thresholdVars, trainVars, explainVars, cacheVars, metricVars, runVars, scriptVars>>

InitPipeline ==
    /\ ScriptIdle
    /\ ArgsIdle
    /\ TargetsIdle
    /\ OrchestratorIdle
    /\ ConnectorIdle
    /\ SplitIdle
    /\ FeaturesIdle
    /\ ConsensusIdle
    /\ ReportIdle
    /\ ThresholdIdle
    /\ TrainIdle
    /\ ExplainIdle
    /\ CacheIdle
    /\ MetricsIdle
    /\ RunIdle
    /\ config = <<>>
    /\ sql_files \in SUBSET ScriptNames
    /\ scripts_to_run = <<>>
    /\ pipeline_pc = "select"
    /\ script_pos = 0
    /\ executions = <<>>
    /\ skipped_scripts = {}

\* scripts_to_run = get_user_selection(SQL_SCRIPT_ORDER); if not scripts_to_run: return
SelectStart ==
    /\ pipeline_pc = "select"
    /\ \E start_num \in 0..Len(SQL_SCRIPT_ORDER) :
        /\ scripts_to_run' = get_user_selection(SQL_SCRIPT_ORDER, start_num)
        /\ pipeline_pc' = IF start_num = 0 THEN "cancelled" ELSE "connect"
    /\ script_pos' = 1
    /\ UNCHANGED <<sql_files, executions, skipped_scripts>>
    /\ PipelineFrame

\* with SnowflakeConnector() as sf: if not sf.connection: return; an exception
\* of the constructor or of __enter__ reaches the outer except
OpenConnection ==
    /\ pipeline_pc = "connect"
    /\ \E outcome \in {"connected", "no_connection", "raised"} :
        pipeline_pc' = CASE outcome = "connected" -> "loop"
                         [] outcome = "no_connection" -> "aborted"
                         [] OTHER -> "critical_error"
    /\ UNCHANGED <<sql_files, scripts_to_run, script_pos, executions, skipped_scripts>>
    /\ PipelineFrame

\* one iteration of the for loop whose script file is not there: warning, continue
SkipMissingScript ==
    /\ pipeline_pc = "loop"
    /\ script_pos <= Len(scripts_to_run)
    /\ scripts_to_run[script_pos] \notin sql_files
    /\ skipped_scripts' = skipped_scripts \cup {scripts_to_run[script_pos]}
    /\ script_pos' = script_pos + 1
    /\ UNCHANGED <<sql_files, scripts_to_run, pipeline_pc, executions>>
    /\ PipelineFrame

\* one iteration of the for loop whose script file is there: execute_sql_file
\* returns True, or False after any exception of open, read or execute_string;
\* False breaks the loop
ExecuteScript ==
    /\ pipeline_pc = "loop"
    /\ script_pos <= Len(scripts_to_run)
    /\ scripts_to_run[script_pos] \in sql_files
    /\ \E success \in BOOLEAN :
        /\ executions' = Append(executions, [script |-> scripts_to_run[script_pos], success |-> success])
        /\ pipeline_pc' = IF success THEN "loop" ELSE "halted"
    /\ script_pos' = script_pos + 1
    /\ UNCHANGED <<sql_files, scripts_to_run, skipped_scripts>>
    /\ PipelineFrame

\* the loop is exhausted: "SQL pipeline execution finished."
FinishPipeline ==
    /\ pipeline_pc = "loop"
    /\ script_pos > Len(scripts_to_run)
    /\ pipeline_pc' = "finished"
    /\ UNCHANGED <<sql_files, scripts_to_run, script_pos, executions, skipped_scripts>>
    /\ PipelineFrame

NextPipeline ==
    \/ SelectStart
    \/ OpenConnection
    \/ SkipMissingScript
    \/ ExecuteScript
    \/ FinishPipeline

SpecPipeline == InitPipeline /\ [][NextPipeline]_vars

ExecutedScripts == {executions[i].script : i \in DOMAIN executions}

\* C28: the scripts are executed in the order of SQL_SCRIPT_ORDER, from the
\* selected script on with no script between the selected one and an executed
\* one left out, and nothing is executed after a script that failed
C28_ScriptsInOrderNoDependencySkipped ==
    /\ \A i, j \in DOMAIN executions :
        i < j => script_place(executions[i].script) < script_place(executions[j].script)
    /\ \A j \in DOMAIN executions :
        \A place \in script_place(scripts_to_run[1]) .. (script_place(executions[j].script) - 1) :
            SQL_SCRIPT_ORDER[place] \in ExecutedScripts
    /\ \A i \in DOMAIN executions : i < Len(executions) => executions[i].success


\* ---------------------------------------------------------------------------
\* SpecScript: scripts/utils/run_sql_script.py, run_sql_from_file, with
\* execute_query and query_to_dataframe of snowflake_connector.py
\* ---------------------------------------------------------------------------

MaxTokens == 4

\* The text of a SQL file, token by token: the text of a query, the text of
\* another statement, white space and the semicolon
Tokens == {"SELECT 1", "SET x = 1", " ", ";"}

SqlScripts == UNION { [1..n -> Tokens] : n \in 0..MaxTokens }

\* str.split(';')
RECURSIVE split_semicolon(_)
split_semicolon(text) ==
    IF \A i \in DOMAIN text : text[i] # ";" THEN <<text>>
    ELSE LET k == CHOOSE i \in DOMAIN text :
                      text[i] = ";" /\ \A j \in 1..(i - 1) : text[j] # ";"
         IN <<SubSeq(text, 1, k - 1)>> \o split_semicolon(SubSeq(text, k + 1, Len(text)))

\* stmt.strip()
RECURSIVE strip_statement(_)
strip_statement(stmt) ==
    IF stmt = <<>> THEN stmt
    ELSE IF Head(stmt) = " " THEN strip_statement(Tail(stmt))
    ELSE IF stmt[Len(stmt)] = " " THEN strip_statement(SubSeq(stmt, 1, Len(stmt) - 1))
    ELSE stmt

\* Line 30: [stmt.strip() for stmt in sql_script.split(';') if stmt.strip()]
split_statements(text) ==
    LET chunks == split_semicolon(text)
        stripped == [i \in DOMAIN chunks |-> strip_statement(chunks[i])]
    IN SelectSeq(stripped, LAMBDA stmt : stmt # <<>>)

\* Lines 59: cleaned_statement.upper().startswith('SELECT')
is_select(stmt) == Head(stmt) = "SELECT 1"

\* execute_query (142-160) and query_to_dataframe (162-180): the connection
\* is there; an exception of the cursor or of read_sql is printed by the
\* connector and None is returned, nothing is raised
connector_result(server_accepts) ==
    IF server_accepts THEN [returned |-> "result", printed |-> <<>>]
    ELSE [returned |-> "None", printed |-> <<"Error executing query">>]

\* Lines 59-71: what the loop body prints after the connector's call
statement_report(stmt, result) ==
    IF is_select(stmt)
    THEN IF result.returned # "None" THEN <<"Query Result:">>
         ELSE <<"Query executed but returned no data.">>
    ELSE <<"Statement executed successfully.">>

ScriptFrame ==
    /\ UNCHANGED config
    /\ UNCHANGED <<argVars, targetVars, orchestratorVars, connectorVars, pipelineVars, splitVars, featureVars, consensusVars, reportVars, thresholdVars, trainVars, explainVars, cacheVars, metricVars, runVars>>

InitScript ==
    /\ PipelineIdle
    /\ ArgsIdle
    /\ TargetsIdle
    /\ OrchestratorIdle
    /\ ConnectorIdle
    /\ SplitIdle
    /\ FeaturesIdle
    /\ ConsensusIdle
    /\ ReportIdle
    /\ ThresholdIdle
    /\ TrainIdle
    /\ ExplainIdle
    /\ CacheIdle
    /\ MetricsIdle
    /\ RunIdle
    /\ config = <<>>
    /\ sql_script \in SqlScripts
    /\ statements = <<>>
    /\ script_pc = "read"
    /\ statement_pos = 0
    /\ statement_log = <<>>
    /\ final_df = 0

\* Lines 16-34: the file is found and read, or not; the text is split
ReadScript ==
    /\ script_pc = "read"
    /\ \E readable \in BOOLEAN :
          IF ~readable
          THEN /\ script_pc' = "no_file"
               /\ UNCHANGED statements
          ELSE /\ statements' = split_statements(sql_script)
               /\ script_pc' = IF split_statements(sql_script) = <<>>
                               THEN "no_statements" ELSE "connect"
    /\ statement_pos' = 1
    /\ UNCHANGED <<sql_script, statement_log, final_df>>
    /\ ScriptFrame

\* Lines 37-40: with SnowflakeConnector() as sf: if not sf.connection: return
ConnectForScript ==
    /\ script_pc = "connect"
    /\ \E connected \in BOOLEAN :
          script_pc' = IF connected THEN "loop" ELSE "no_connection"
    /\ UNCHANGED <<sql_script, statements, statement_pos, statement_log, final_df>>
    /\ ScriptFrame

\* Lines 46-71: one iteration of the loop; the server accepts the statement
\* or answers with an error
ExecuteStatement ==
    /\ script_pc = "loop"
    /\ statement_pos <= Len(statements)
    /\ \E server_accepts \in BOOLEAN :
          LET stmt == statements[statement_pos]
              result == connector_result(server_accepts)
          IN /\ statement_log' = Append(statement_log,
                     [index |-> statement_pos, statement |-> stmt, failed |-> ~server_accepts,
                      printed |-> result.printed \o statement_report(stmt, result)])
             /\ final_df' = IF is_select(stmt) /\ result.returned # "None"
                            THEN statement_pos ELSE final_df
    /\ statement_pos' = statement_pos + 1
    /\ UNCHANGED <<sql_script, statements, script_pc>>
    /\ ScriptFrame

\* Lines 77-89: after the loop the last query result is saved when asked for
FinishScript ==
    /\ script_pc = "loop"
    /\ statement_pos > Len(statements)
    /\ script_pc' = "finished"
    /\ UNCHANGED <<sql_script, statements, statement_pos, statement_log, final_df>>
    /\ ScriptFrame

NextScript ==
    \/ ReadScript
    \/ ConnectForScript
    \/ ExecuteStatement
    \/ FinishScript

SpecScript == InitScript /\ [][NextScript]_vars

\* C30: the statements of the file are executed one at a time in file order,
\* the error of a failing statement is reported, and no statement is
\* executed after a statement that failed
C30_StatementsInOrderStopAtFailure ==
    /\ \A i \in DOMAIN statement_log :
          /\ statement_log[i].index = i
          /\ statement_log[i].statement = statements[i]
          /\ statement_log[i].failed => statement_log[i].printed # <<>>
                                        /\ Head(statement_log[i].printed) = "Error executing query"
    /\ \A i \in DOMAIN statement_log : i < Len(statement_log) => ~statement_log[i].failed

====
